---- MODULE Spec2Model ----
(***************************************************************************)
(* A model of the cbproto runtime (src/src/cbproto/__init__.py): the wire  *)
(* codec (varints, records, serialize_to_bytes, deserialize_from_bytes)    *)
(* and the Message base class (construction, attribute reads and writes,   *)
(* one-of groups).                                                         *)
(*                                                                         *)
(* Bytes are integers 0..255 and byte strings are sequences of them.       *)
(* Python integers are unbounded, so a value read from or written to the   *)
(* wire is a PyInt: a sign and a magnitude held as a little-endian         *)
(* sequence of bits without leading zeros (<<>> is 0).  Positions in a     *)
(* buffer are 0-based as in the source; buffer[pos] is buffer[pos + 1] of  *)
(* the sequence.                                                           *)
(***************************************************************************)
EXTENDS Integers, Sequences, FiniteSets, TLC

\* ------------------------------------------------------------------ bounds

\* Longest byte string handed to decode_varint (one more than the 10 bytes a
\* varint may have, so that an over-long varint is among the inputs).
MaxVarintLen == 11
\* The longest list or dict given to a field.
MaxListLen == 2
\* The number of operations applied to a message after its construction.
MaxSteps == 2

\* ------------------------------------------------- unbounded integers (bits)

Min(a, b) == IF a <= b THEN a ELSE b
Max(a, b) == IF a >= b THEN a ELSE b

RECURSIVE Norm(_)
\* Drops the leading (most significant, last in the sequence) zero bits.
Norm(bs) ==
    IF bs = <<>> THEN <<>>
    ELSE IF bs[Len(bs)] = 0 THEN Norm(SubSeq(bs, 1, Len(bs) - 1))
    ELSE bs

RECURSIVE BitsOf(_)
\* The bits of a natural number that fits a native integer.
BitsOf(n) == IF n = 0 THEN <<>> ELSE <<n % 2>> \o BitsOf(n \div 2)

RECURSIVE IntOf(_)
\* The natural number of a bit sequence (below 2^31).
IntOf(bs) == IF bs = <<>> THEN 0 ELSE Head(bs) + 2 * IntOf(Tail(bs))

Bit(bs, i) == IF i <= Len(bs) THEN bs[i] ELSE 0

\* x << k
Shl(bs, k) == IF bs = <<>> THEN <<>> ELSE [i \in 1..k |-> 0] \o bs
\* x >> k  (x >= 0)
Shr(bs, k) == IF k >= Len(bs) THEN <<>> ELSE SubSeq(bs, k + 1, Len(bs))
\* x & ((1 << k) - 1)
LowBits(bs, k) == Norm(SubSeq(bs, 1, Min(k, Len(bs))))
\* 1 << k
Pow2(k) == [i \in 1..(k + 1) |-> IF i = k + 1 THEN 1 ELSE 0]
\* x | y
BitOr(a, b) ==
    Norm([i \in 1..Max(Len(a), Len(b)) |-> IF Bit(a, i) = 1 \/ Bit(b, i) = 1 THEN 1 ELSE 0])
\* x ^ y
BitXor(a, b) ==
    Norm([i \in 1..Max(Len(a), Len(b)) |-> IF Bit(a, i) # Bit(b, i) THEN 1 ELSE 0])

RECURSIVE MagLess(_, _)
\* a < b for normalised magnitudes.
MagLess(a, b) ==
    IF Len(a) # Len(b) THEN Len(a) < Len(b)
    ELSE IF a = <<>> THEN FALSE
    ELSE IF a[Len(a)] # b[Len(b)] THEN a[Len(a)] < b[Len(b)]
    ELSE MagLess(Norm(SubSeq(a, 1, Len(a) - 1)), Norm(SubSeq(b, 1, Len(b) - 1)))

RECURSIVE AddC(_, _, _)
AddC(a, b, c) ==
    IF a = <<>> /\ b = <<>> THEN (IF c = 1 THEN <<1>> ELSE <<>>)
    ELSE LET s == Bit(a, 1) + Bit(b, 1) + c
         IN  <<s % 2>> \o AddC(Shr(a, 1), Shr(b, 1), s \div 2)
\* a + b for magnitudes
MagAdd(a, b) == Norm(AddC(a, b, 0))

RECURSIVE SubB(_, _, _)
SubB(a, b, c) ==
    IF a = <<>> THEN <<>>
    ELSE LET d == Bit(a, 1) - Bit(b, 1) - c
         IN  <<d % 2>> \o SubB(Shr(a, 1), Shr(b, 1), IF d < 0 THEN 1 ELSE 0)
\* a - b for magnitudes with a >= b
MagSub(a, b) == Norm(SubB(a, b, 0))

\* A Python int.
PyInt(neg, mag) == [neg |-> neg /\ mag # <<>>, mag |-> mag]
\* The PyInt of a native integer.
PyIntOf(n) == IF n < 0 THEN PyInt(TRUE, BitsOf(0 - n)) ELSE PyInt(FALSE, BitsOf(n))
\* The small integer of a PyInt (magnitude below 2^31).
SmallOf(p) == IF p.neg THEN 0 - IntOf(p.mag) ELSE IntOf(p.mag)
\* x + y
PyAdd(x, y) ==
    IF x.neg = y.neg THEN PyInt(x.neg, MagAdd(x.mag, y.mag))
    ELSE IF MagLess(x.mag, y.mag) THEN PyInt(y.neg, MagSub(y.mag, x.mag))
    ELSE PyInt(x.neg, MagSub(x.mag, y.mag))
\* x - y
PySub(x, y) == PyAdd(x, PyInt(~y.neg, y.mag))

\* ------------------------------------------------------------------ varints

RECURSIVE encode_varint_loop(_)
\* bits = value & 0x7F; value >>= 7; while value: b.append(0x80 | bits); ...
encode_varint_loop(value) ==
    LET bits == IntOf(LowBits(value, 7))
        rest == Shr(value, 7)
    IN  IF rest # <<>> THEN <<128 + bits>> \o encode_varint_loop(rest)
        ELSE <<bits>>

\* encode_varint(value), for value >= -2^64.
encode_varint(value) ==
    encode_varint_loop(IF value.neg THEN PyAdd(value, PyInt(FALSE, Pow2(64))).mag
                       ELSE value.mag)

\* The shift at which decode_varint gives up.
VARINT_MAX_SHIFT_Short == 64 - 7
VARINT_MAX_SHIFT == 64

IndexError == [ok |-> FALSE, err |-> "IndexError"]
VarintError == [ok |-> FALSE, err |-> "ValueError: Too many bytes when decoding varint."]

RECURSIVE decode_varint_loop(_, _, _, _)
decode_varint_loop(buffer, pos, result, shift) ==
    IF pos >= Len(buffer) THEN IndexError
    ELSE LET b == buffer[pos + 1]
             r == BitOr(result, Shl(BitsOf(b % 128), shift))
         IN  IF b < 128 THEN [ok |-> TRUE, value |-> r, pos |-> pos + 1]
             ELSE IF shift + 7 >= VARINT_MAX_SHIFT THEN VarintError
             ELSE decode_varint_loop(buffer, pos + 1, r, shift + 7)

\* decode_varint(buffer, pos): (value, new position), or the exception raised.
decode_varint(buffer, pos) == decode_varint_loop(buffer, pos, <<>>, 0)

\* ------------------------------------------------------- message classes

\* FieldMetadata(number, proto_type, map_types, group, wraps, optional) of a
\* dataclass field, with what ProtoClassMetadata derives from the field's type
\* hint: whether it is a list (default_gen is list) and the class of a message
\* field, or the Entry class of a map field (cls_by_field).  None is "".
Meta(name, number, proto_type) ==
    [name |-> name, number |-> number, proto_type |-> proto_type,
     map_types |-> <<>>, group |-> "", wraps |-> "", optional |-> FALSE,
     repeated |-> FALSE, cls |-> ""]

TYPE_INT32 == "int32"
TYPE_INT64 == "int64"
TYPE_SINT32 == "sint32"
TYPE_SINT64 == "sint64"
TYPE_UINT32 == "uint32"
TYPE_UINT64 == "uint64"
TYPE_STRING == "string"
TYPE_BYTES == "bytes"
TYPE_MESSAGE == "message"
TYPE_MAP == "map"

\* The message classes of the model, in the shape the plugin generates them.
\*   Inner      { int32 v = 1; }
\*   Int32Value { int32 value = 1; }                 (google.protobuf wrapper)
\*   Scalars    { int32 x = 1; string s = 2; optional int32 o = 3;
\*                google.protobuf.Int32Value w = 4; }
\*   OneOf      { int32 x = 1; oneof g { string a = 2; int32 b = 3; Inner c = 4; } }
\*   Rep        { string x = 1; repeated int32 r = 2; repeated string rs = 3; }
\*   RepMsg     { Inner n = 1; repeated Inner rm = 2; }
\*   Maps       { map<string, string> ms = 1; map<string, int32> mi = 2; }
\*   MapMsg     { map<string, Inner> mm = 1; }
\* and the Entry dataclasses _get_cls_by_field makes for the two map fields.
\* The plugin's own FieldDescriptorProto is a class of the same shape, read as
\* proto3: of its fields the model keeps
\*   FieldDescriptorProto { string name = 1; int32 number = 3; int32 oneof_index = 9; }
\* "FieldDescriptorProto/patched" is the class after monkey_patch_oneof_index.
FieldDescriptorProto ==
    << Meta("name", 1, TYPE_STRING),
       Meta("number", 3, TYPE_INT32),
       Meta("oneof_index", 9, TYPE_INT32) >>

\* object.__setattr__(<metadata of field name>, "group", group)
set_group(ms, name, group) ==
    [i \in 1..Len(ms) |-> IF ms[i].name = name THEN [ms[i] EXCEPT !.group = group] ELSE ms[i]]

meta_by_field_name(cls) ==
    CASE cls = "Inner" -> << Meta("v", 1, TYPE_INT32) >>
      [] cls = "FieldDescriptorProto" -> FieldDescriptorProto
      [] cls = "FieldDescriptorProto/patched" ->
           set_group(FieldDescriptorProto, "oneof_index", "oneof_index")
      [] cls = "Int32Value" -> << Meta("value", 1, TYPE_INT32) >>
      [] cls = "Entry_mm" -> << Meta("key", 1, TYPE_STRING),
                               [Meta("value", 2, TYPE_MESSAGE) EXCEPT !.cls = "Inner"] >>
      [] cls = "Entry_ms" -> << Meta("key", 1, TYPE_STRING), Meta("value", 2, TYPE_STRING) >>
      [] cls = "Entry_mi" -> << Meta("key", 1, TYPE_STRING), Meta("value", 2, TYPE_INT32) >>
      [] cls = "Scalars" ->
           << Meta("x", 1, TYPE_INT32),
              Meta("s", 2, TYPE_STRING),
              [Meta("o", 3, TYPE_INT32) EXCEPT !.group = "_o", !.optional = TRUE],
              [Meta("w", 4, TYPE_MESSAGE) EXCEPT !.wraps = TYPE_INT32, !.cls = "Int32Value"] >>
      [] cls = "OneOf" ->
           << Meta("x", 1, TYPE_INT32),
              [Meta("a", 2, TYPE_STRING) EXCEPT !.group = "g"],
              [Meta("b", 3, TYPE_INT32) EXCEPT !.group = "g"],
              [Meta("c", 4, TYPE_MESSAGE) EXCEPT !.group = "g", !.cls = "Inner"] >>
      [] cls = "Rep" ->
           << Meta("x", 1, TYPE_STRING),
              [Meta("r", 2, TYPE_INT32) EXCEPT !.repeated = TRUE],
              [Meta("rs", 3, TYPE_STRING) EXCEPT !.repeated = TRUE] >>
      [] cls = "RepMsg" ->
           << [Meta("n", 1, TYPE_MESSAGE) EXCEPT !.cls = "Inner"],
              [Meta("rm", 2, TYPE_MESSAGE) EXCEPT !.repeated = TRUE, !.cls = "Inner"] >>
      [] cls = "MapMsg" ->
           << [Meta("mm", 1, TYPE_MAP) EXCEPT !.map_types = <<TYPE_STRING, TYPE_MESSAGE>>,
                                              !.cls = "Entry_mm"] >>
      [] cls = "Maps" ->
           << [Meta("ms", 1, TYPE_MAP) EXCEPT !.map_types = <<TYPE_STRING, TYPE_STRING>>,
                                              !.cls = "Entry_ms"],
              [Meta("mi", 2, TYPE_MAP) EXCEPT !.map_types = <<TYPE_STRING, TYPE_INT32>>,
                                              !.cls = "Entry_mi"] >>

\* Lookups in the list ms of a class's field metadata.
NamesIn(ms) == {ms[i].name : i \in 1..Len(ms)}
MetaIn(ms, name) == ms[CHOOSE i \in 1..Len(ms) : ms[i].name = name]
GroupsIn(ms) == {ms[i].group : i \in 1..Len(ms)} \ {""}
GroupIn(ms, group) == {ms[i].name : i \in {j \in 1..Len(ms) : ms[j].group = group}}
NumberIn(ms, number) ==
    IF \E i \in 1..Len(ms) : ms[i].number = number
    THEN ms[CHOOSE i \in 1..Len(ms) : ms[i].number = number].name
    ELSE ""

NumFields(cls) == Len(meta_by_field_name(cls))
FieldNames(cls) == NamesIn(meta_by_field_name(cls))
MetaOf(cls, name) == MetaIn(meta_by_field_name(cls), name)
\* oneof_field_by_group: the groups of a class, and the fields of a group.
GroupsOf(cls) == GroupsIn(meta_by_field_name(cls))
oneof_field_by_group(cls, group) == GroupIn(meta_by_field_name(cls), group)
\* field_name_by_number.get(number): the field's name, or "" for None.
field_name_by_number(cls, number) == NumberIn(meta_by_field_name(cls), number)

\* ------------------------------------------------------------------ values

\* What an attribute of an instance holds: the UNSET sentinel, None, or a
\* value: an integer, a str (its code points), a list (a sequence), a dict
\* (its items in insertion order) or a Message (a record).
Unset == [k |-> "unset"]
None == [k |-> "none"]
Val(v) == [k |-> "val", v |-> v]

\* dict operations on the sequence of items.
DictKeys(d) == {d[i].key : i \in 1..Len(d)}
DictGet(d, key) == d[CHOOSE i \in 1..Len(d) : d[i].key = key].value
\* d[key] = value
DictSet(d, key, value) ==
    IF key \in DictKeys(d)
    THEN [i \in 1..Len(d) |-> IF d[i].key = key THEN [key |-> key, value |-> value] ELSE d[i]]
    ELSE Append(d, [key |-> key, value |-> value])

\* ----------------------------------------------------------- Message base

\* __post_init__: whether the field holds a value other than its sentinel.
post_init_found(meta, value) ==
    value.k # "unset" /\ ~(meta.optional /\ value.k = "none")

\* A loop that keeps the first field of a group that has a value.
post_init_step_First(meta, found, group_current) ==
    IF found /\ meta.group # "" /\ group_current[meta.group] = ""
    THEN [group_current EXCEPT ![meta.group] = meta.name]
    ELSE group_current

\* __post_init__: group_current after the loop's body for one field.
post_init_step(meta, found, group_current) ==
    IF found /\ meta.group # ""
    THEN [group_current EXCEPT ![meta.group] = meta.name]
    ELSE group_current

RECURSIVE post_init_loop(_, _, _, _, _)
\* The loop of __post_init__ over the fields ms from field i on:
\* (all_sentinel, group_current).
post_init_loop(ms, f, i, all_sentinel, group_current) ==
    IF i > Len(ms) THEN [all_sentinel |-> all_sentinel, group_current |-> group_current]
    ELSE post_init_loop(ms, f, i + 1,
             all_sentinel /\ ~post_init_found(ms[i], f[ms[i].name]),
             post_init_step(ms[i], post_init_found(ms[i], f[ms[i].name]), group_current))

\* A __post_init__ that always leaves _serialized_on_wire false.
post_init_done_Unserialized(cls, f, r) ==
    [cls |-> cls, f |-> f, sow |-> FALSE, unk |-> <<>>, gc |-> r.group_current]

\* The instance __post_init__ leaves, its loop having returned r.
post_init_done(cls, f, r) ==
    [cls |-> cls, f |-> f, sow |-> ~r.all_sentinel, unk |-> <<>>,
     gc |-> r.group_current]

\* Every group of the fields ms without a current field.
NoCurrent(ms) == [g \in GroupsIn(ms) |-> ""]

\* The instance after the dataclass __init__ stored f and __post_init__ ran.
post_init_of(cls, ms, f) ==
    post_init_done(cls, f, post_init_loop(ms, f, 1, TRUE, NoCurrent(ms)))
post_init(cls, f) == post_init_of(cls, meta_by_field_name(cls), f)

\* The default of a dataclass field made by proto_field: None if optional else UNSET.
proto_field_default(meta) == IF meta.optional THEN None ELSE Unset

\* The attributes the dataclass __init__ stores when called with kwargs.
InitOf(ms, kwargs) ==
    [n \in NamesIn(ms) |->
        IF n \in DOMAIN kwargs THEN kwargs[n] ELSE proto_field_default(MetaIn(ms, n))]

\* cls(**kwargs): kwargs maps some field names to values.
ConstructOf(cls, ms, kwargs) == post_init_of(cls, ms, InitOf(ms, kwargs))
Construct(cls, kwargs) == ConstructOf(cls, meta_by_field_name(cls), kwargs)

\* cls(): the instance made without arguments.
NewMessage(cls) == Construct(cls, <<>>)

\* get_field_default(field_name): the call of default_gen[field_name].
default_gen(meta) ==
    IF meta.proto_type = TYPE_MAP THEN Val(<<>>)
    ELSE IF meta.repeated THEN Val(<<>>)
    ELSE IF meta.optional \/ meta.wraps # "" THEN None
    ELSE IF meta.proto_type = TYPE_MESSAGE THEN Val(NewMessage(meta.cls))
    ELSE IF meta.proto_type = TYPE_STRING THEN Val(<<>>)
    ELSE Val(0)
get_field_default(cls, name) == default_gen(MetaOf(cls, name))

\* __getattribute__(name): the value returned ...
getattribute(m, name) ==
    IF m.f[name].k # "unset" THEN m.f[name] ELSE get_field_default(m.cls, name)
\* A read that caches the default with self.<name> = value, which marks the
\* instance as serialized on the wire.
after_getattribute_ViaSetattr(m, name) ==
    IF m.f[name].k # "unset" THEN m
    ELSE [m EXCEPT !.sow = TRUE, !.f[name] = getattribute(m, name)]
\* ... and the instance afterwards, the default cached on it.
after_getattribute(m, name) == [m EXCEPT !.f[name] = getattribute(m, name)]

\* An assignment that selects the field and leaves the group's other fields.
setattr_KeepSiblings(m, attr, value) ==
    [m EXCEPT !.sow = TRUE,
              !.gc = IF MetaOf(m.cls, attr).group # ""
                     THEN [m.gc EXCEPT ![MetaOf(m.cls, attr).group] = attr] ELSE m.gc,
              !.f = [m.f EXCEPT ![attr] = value]]

\* __setattr__ of a field of the one-of group: the group's other fields are
\* reset to the sentinel and the field becomes the group's current one.
setattr_in_group(m, attr, value, group, group_fields) ==
    [m EXCEPT !.sow = TRUE,
              !.gc = [m.gc EXCEPT ![group] = attr],
              !.f = [n \in DOMAIN m.f |->
                        IF n = attr THEN value
                        ELSE IF n \in group_fields THEN Unset ELSE m.f[n]]]

\* __setattr__ of the field meta.
setattr_field(m, ms, meta, value) ==
    IF meta.group # ""
    THEN setattr_in_group(m, meta.name, value, meta.group, GroupIn(ms, meta.group))
    ELSE [m EXCEPT !.sow = TRUE, !.f = [m.f EXCEPT ![meta.name] = value]]

\* The fields ms of a class and the field attr among them.
setattr_of(m, ms, attr, value) == setattr_field(m, ms, MetaIn(ms, attr), value)

\* __setattr__(attr, value) for a declared field.
setattr(m, attr, value) == setattr_of(m, meta_by_field_name(m.cls), attr, value)

RECURSIVE MessageEq(_, _)
\* x == y for two values of the field meta (neither is UNSET).
ItemEq(proto_type, x, y) == IF proto_type = TYPE_MESSAGE THEN MessageEq(x, y) ELSE x = y
ValueEq(meta, x, y) ==
    IF x.k # y.k THEN FALSE
    ELSE IF x.k = "none" THEN TRUE
    ELSE IF meta.proto_type = TYPE_MAP
         THEN /\ DictKeys(x.v) = DictKeys(y.v)
              /\ \A key \in DictKeys(x.v) :
                    ItemEq(meta.map_types[2], DictGet(x.v, key), DictGet(y.v, key))
    ELSE IF meta.repeated
         THEN /\ Len(x.v) = Len(y.v)
              /\ \A i \in 1..Len(x.v) :
                    ItemEq(IF meta.wraps # "" THEN meta.wraps ELSE meta.proto_type, x.v[i], y.v[i])
    ELSE ItemEq(IF meta.wraps # "" THEN meta.wraps ELSE meta.proto_type, x.v, y.v)

\* raw_get of __eq__: the attribute, or the field's default if it is UNSET.
raw_or_default(cls, name, raw) ==
    IF raw.k = "unset" THEN get_field_default(cls, name) ELSE raw

\* The body of __eq__'s loop for one field, given the two raw attributes.
FieldEq(cls, name, self_val, other_val) ==
    \/ self_val.k = "unset" /\ other_val.k = "unset"
    \/ ValueEq(MetaOf(cls, name), raw_or_default(cls, name, self_val),
               raw_or_default(cls, name, other_val))

\* Message.__eq__
MessageEq(self, other) ==
    /\ self.cls = other.cls
    /\ \A name \in FieldNames(self.cls) :
          FieldEq(self.cls, name, self.f[name], other.f[name])

\* ------------------------------------------------------------- the encoder

WIRE_VARINT == 0
WIRE_FIXED_64 == 1
WIRE_LEN_DELIM == 2
WIRE_FIXED_32 == 5

\* The proto types of the model's classes, by wire type and packing.
WIRE_VARINT_TYPES == {TYPE_INT32}
WIRE_LEN_DELIM_TYPES == {TYPE_STRING, TYPE_BYTES, TYPE_MESSAGE, TYPE_MAP}
PACKED_TYPES == {TYPE_INT32}

\* _get_wrapper(proto_type): the wrapper message class of a wrapped type.
get_wrapper(wraps) == "Int32Value"

RECURSIVE utf8_encode(_)
\* str.encode("utf-8"), for code points below 0x800.
utf8_encode(s) ==
    IF s = <<>> THEN <<>>
    ELSE (IF Head(s) < 128 THEN <<Head(s)>>
          ELSE <<192 + (Head(s) \div 64), 128 + (Head(s) % 64)>>) \o utf8_encode(Tail(s))

\* The element substituted for a repeated item that serializes to nothing.
EMPTY_ITEM(field_number) == <<10, 0>>

\* value << 1
PyShl1(value) == PyInt(value.neg, Shl(value.mag, 1))
\* value ^ (~0): every bit inverted, -value - 1.
PyInvert(value) == PySub(PyInt(~value.neg, value.mag), PyInt(FALSE, <<1>>))

\* The zig-zag encoding of _preprocess_single:
\* value << 1 if value >= 0 else (value << 1) ^ (~0)
zigzag(value) == IF ~value.neg THEN PyShl1(value) ELSE PyInvert(PyShl1(value))

\* _preprocess_single(proto_type, wraps, value) for the integer types.
preprocess_int(proto_type, value) ==
    IF proto_type \in {TYPE_INT32, TYPE_INT64} THEN encode_varint(value)
    ELSE encode_varint(zigzag(value))

RECURSIVE serialize_to_bytes(_)

\* _preprocess_single(proto_type, wraps, value), value not None.
preprocess_single(proto_type, wraps, value) ==
    IF proto_type \in WIRE_VARINT_TYPES THEN encode_varint(PyIntOf(value))
    ELSE IF proto_type = TYPE_STRING THEN utf8_encode(value)
    ELSE IF proto_type = TYPE_MESSAGE
         THEN IF wraps # ""
              THEN serialize_to_bytes(Construct(get_wrapper(wraps),
                                                [n \in {"value"} |-> Val(value)]))
              ELSE serialize_to_bytes(value)
    ELSE value

\* _serialize_single(field_number, proto_type, value, serialize_empty=, wraps=)
serialize_single(field_number, proto_type, value, serialize_empty, wraps) ==
    LET data == preprocess_single(proto_type, wraps, value)
    IN  IF proto_type \in WIRE_VARINT_TYPES
        THEN encode_varint(PyIntOf(field_number * 8)) \o data
        ELSE IF Len(data) > 0 \/ serialize_empty \/ wraps # ""
        THEN encode_varint(PyIntOf(field_number * 8 + WIRE_LEN_DELIM))
                 \o encode_varint(PyIntOf(Len(data))) \o data
        ELSE <<>>

RECURSIVE serialize_packed(_, _)
\* buf of the packed branch: the preprocessed items, one after the other.
serialize_packed(proto_type, items) ==
    IF items = <<>> THEN <<>>
    ELSE preprocess_single(proto_type, "", Head(items)) \o serialize_packed(proto_type, Tail(items))

RECURSIVE serialize_items(_, _)
\* The non-packed branch: one record per item, "or b'\n\x00'".
serialize_items(meta, items) ==
    IF items = <<>> THEN <<>>
    ELSE LET one == serialize_single(meta.number, meta.proto_type, Head(items), FALSE, meta.wraps)
         IN  (IF one # <<>> THEN one ELSE EMPTY_ITEM(meta.number))
                 \o serialize_items(meta, Tail(items))

RECURSIVE serialize_dict(_, _)
\* The map branch: one record per (k, v) of value.items().
serialize_dict(meta, items) ==
    IF items = <<>> THEN <<>>
    ELSE LET sk == serialize_single(1, meta.map_types[1], Head(items).key, FALSE, "")
             sv == serialize_single(2, meta.map_types[2], Head(items).value, FALSE, "")
         IN  serialize_single(meta.number, meta.proto_type, sk \o sv, FALSE, "")
                 \o serialize_dict(meta, Tail(items))

\* _include_default_value_for_oneof(field_name, meta)
include_default_value_for_oneof(message, meta) ==
    meta.group # "" /\ message.gc[meta.group] = meta.name

\* isinstance(value, Message) for the value of the field meta
IsMessageValue(meta, value) ==
    value.k = "val" /\ meta.proto_type = TYPE_MESSAGE /\ meta.wraps = "" /\ ~meta.repeated

\* One turn of the loop of serialize_to_bytes: what the field adds to output.
serialize_field(message, meta) ==
    LET value == getattribute(message, meta.name)
        selected_in_group == meta.group # "" /\ message.gc[meta.group] = meta.name
        serialize_empty == IsMessageValue(meta, value) /\ value.v.sow
        include_default == include_default_value_for_oneof(message, meta)
    IN  IF value.k = "none" THEN <<>>
        ELSE IF /\ ValueEq(meta, value, get_field_default(message.cls, meta.name))
                /\ ~(selected_in_group \/ serialize_empty \/ include_default)
        THEN <<>>
        ELSE IF meta.repeated
        THEN IF meta.proto_type \in PACKED_TYPES
             THEN serialize_single(meta.number, TYPE_BYTES,
                                   serialize_packed(meta.proto_type, value.v), FALSE, "")
             ELSE serialize_items(meta, value.v)
        ELSE IF meta.proto_type = TYPE_MAP
        THEN serialize_dict(meta, value.v)
        ELSE serialize_single(meta.number, meta.proto_type, value.v,
                 \/ serialize_empty
                 \/ (meta.proto_type = TYPE_STRING /\ value.v = <<>> /\ include_default)
                 \/ selected_in_group,
                 meta.wraps)

RECURSIVE serialize_fields(_, _)
serialize_fields(message, i) ==
    IF i > NumFields(message.cls) THEN <<>>
    ELSE serialize_field(message, meta_by_field_name(message.cls)[i])
             \o serialize_fields(message, i + 1)

\* serialize_to_bytes(message): the bytes returned.
serialize_to_bytes(message) == serialize_fields(message, 1) \o message.unk

\* The condition of the second `continue` of serialize_to_bytes, value being
\* what getattr returned.
value_is_default(message, meta, value) ==
    /\ ValueEq(meta, value, get_field_default(message.cls, meta.name))
    /\ ~(\/ meta.group # "" /\ message.gc[meta.group] = meta.name
         \/ IsMessageValue(meta, value) /\ value.v.sow
         \/ include_default_value_for_oneof(message, meta))
field_is_default(message, meta) ==
    value_is_default(message, meta, getattribute(message, meta.name))

\* serialize_to_bytes(message): the message it leaves behind.  getattr caches
\* the default of every unset field, and bytes(value) does the same inside
\* every nested message that is emitted.
RECURSIVE after_serialize(_)
\* The field's value after it was emitted.
after_serialize_value(meta, value) ==
    IF meta.proto_type = TYPE_MESSAGE /\ meta.wraps = "" /\ meta.repeated
    THEN Val([i \in 1..Len(value.v) |-> after_serialize(value.v[i])])
    ELSE IF IsMessageValue(meta, value) THEN Val(after_serialize(value.v))
    ELSE value

\* The message after the loop's body for the field meta: m1 is the message
\* with the attribute cached, value the attribute.
after_serialize_cached(m1, meta, value) ==
    IF value.k = "none" \/ value_is_default(m1, meta, value) THEN m1
    ELSE [m1 EXCEPT !.f[meta.name] = after_serialize_value(meta, value)]

after_serialize_field(message, meta) ==
    after_serialize_cached(after_getattribute(message, meta.name), meta,
                           getattribute(message, meta.name))

RECURSIVE after_serialize_fields(_, _, _)
after_serialize_fields(message, ms, i) ==
    IF i > Len(ms) THEN message
    ELSE after_serialize_fields(after_serialize_field(message, ms[i]), ms, i + 1)

after_serialize(message) ==
    after_serialize_fields(message, meta_by_field_name(message.cls), 1)

\* ------------------------------------------------------------- the decoder

\* value[i:j] of a byte string (a slice past the end is cut, not an error).
Slice(value, i, j) == SubSeq(value, i + 1, Min(j, Len(value)))

\* A field number read from a tag, as a small integer; -1 stands for the
\* numbers of more than 30 bits, which no class of the model declares.
NumberOf(bits) == IF Len(bits) <= 30 THEN IntOf(bits) ELSE 0 - 1
\* A length read from the wire, as a small integer; lengths of more than 20
\* bits exceed every buffer of the model and are cut to 2^20.
LengthOf(bits) == IF Len(bits) <= 20 THEN IntOf(bits) ELSE 2 ^ 20

\* ParsedField(number, wire_type, value, raw).  value is the varint's
\* magnitude, or the payload bytes; none says that value is None.
ParsedField(number, wire_type, value, none, raw) ==
    [number |-> number, wire_type |-> wire_type, value |-> value, none |-> none, raw |-> raw]

\* The body of parse_fields's loop after the tag: (decoded, i), or the exception.
parse_payload(value, wire_type, i) ==
    IF wire_type = WIRE_VARINT
    THEN LET d == decode_varint(value, i)
         IN  IF d.ok THEN [ok |-> TRUE, decoded |-> d.value, none |-> FALSE, i |-> d.pos]
             ELSE d
    ELSE IF wire_type = WIRE_FIXED_64
    THEN [ok |-> TRUE, decoded |-> Slice(value, i, i + 8), none |-> FALSE, i |-> i + 8]
    ELSE IF wire_type = WIRE_LEN_DELIM
    THEN LET d == decode_varint(value, i)
         IN  IF d.ok
             THEN [ok |-> TRUE, decoded |-> Slice(value, d.pos, d.pos + LengthOf(d.value)),
                   none |-> FALSE, i |-> d.pos + LengthOf(d.value)]
             ELSE d
    ELSE IF wire_type = WIRE_FIXED_32
    THEN [ok |-> TRUE, decoded |-> Slice(value, i, i + 4), none |-> FALSE, i |-> i + 4]
    ELSE [ok |-> TRUE, decoded |-> <<>>, none |-> TRUE, i |-> i]

RECURSIVE parse_fields_loop(_, _)
parse_fields_loop(value, i) ==
    IF i >= Len(value) THEN [fields |-> <<>>, err |-> ""]
    ELSE LET tag == decode_varint(value, i)
         IN  IF ~tag.ok THEN [fields |-> <<>>, err |-> tag.err]
             ELSE LET number == NumberOf(Shr(tag.value, 3))
                      wire_type == IntOf(LowBits(tag.value, 3))
                      p == parse_payload(value, wire_type, tag.pos)
                  IN  IF ~p.ok THEN [fields |-> <<>>, err |-> p.err]
                      ELSE LET rest == parse_fields_loop(value, p.i)
                           IN  [fields |-> <<ParsedField(number, wire_type, p.decoded,
                                                         p.none, Slice(value, i, p.i))>>
                                               \o rest.fields,
                                err |-> rest.err]

\* parse_fields(value): the fields the generator yields, and the exception
\* that ends it ("" when it ends normally).
parse_fields(value) == parse_fields_loop(value, 0)

RECURSIVE utf8_decode(_)
\* str(value, "utf-8"): the code points (below 0x800), or the error.
utf8_decode(b) ==
    IF b = <<>> THEN [ok |-> TRUE, s |-> <<>>]
    ELSE IF Head(b) < 128
    THEN LET r == utf8_decode(Tail(b))
         IN  IF r.ok THEN [ok |-> TRUE, s |-> <<Head(b)>> \o r.s] ELSE r
    ELSE IF Head(b) >= 194 /\ Head(b) < 224 /\ Len(b) >= 2 /\ b[2] >= 128 /\ b[2] < 192
    THEN LET r == utf8_decode(Tail(Tail(b)))
         IN  IF r.ok THEN [ok |-> TRUE, s |-> <<(Head(b) - 192) * 64 + (b[2] - 128)>> \o r.s]
             ELSE r
    ELSE [ok |-> FALSE, err |-> "UnicodeDecodeError"]

\* The mask alone, without the sign.
sign_extend_Unsigned(value, bits) == PyInt(FALSE, LowBits(value, bits))

\* The varint branch of _postprocess_single for TYPE_INT32 / TYPE_INT64:
\* value & ((1 << bits) - 1), then (value ^ signbit) - signbit.
sign_extend(value, bits) ==
    LET masked == LowBits(value, bits)
        signbit == Pow2(bits - 1)
    IN  PySub(PyInt(FALSE, BitXor(masked, signbit)), PyInt(FALSE, signbit))

\* Undo zig-zag encoding: (value >> 1) ^ (-(value & 1)), value >= 0.
unzigzag(value) ==
    IF Bit(value, 1) = 1 THEN PyInvert(PyInt(FALSE, Shr(value, 1)))
    ELSE PyInt(FALSE, Shr(value, 1))

\* bits = int(meta.proto_type[3:])
int_bits(proto_type) == IF proto_type = TYPE_INT32 THEN 32 ELSE 64

\* The WIRE_VARINT branch of _postprocess_single for the integer types; value
\* is what decode_varint returned.
postprocess_int(proto_type, value) ==
    IF proto_type \in {TYPE_INT32, TYPE_INT64} THEN sign_extend(value, int_bits(proto_type))
    ELSE IF proto_type \in {TYPE_SINT32, TYPE_SINT64} THEN unzigzag(value)
    ELSE PyInt(FALSE, value)

\* _postprocess_single applied to what decode_varint returned, if it returned.
postprocess_decoded(proto_type, d) ==
    IF d.ok THEN [ok |-> TRUE, value |-> postprocess_int(proto_type, d.value), pos |-> d.pos]
    ELSE d

\* A value the model's fields cannot hold (an int in a str field, a list in
\* a scalar field): the inputs of the model never lead here.
Unmodelled == [ok |-> FALSE, err |-> "unmodelled"]

RECURSIVE deserialize_from_bytes(_, _)

\* The WIRE_VARINT branch of _postprocess_single.
postprocess_varint(meta, value) ==
    IF meta.proto_type = TYPE_INT32
    THEN [ok |-> TRUE, value |-> Val(SmallOf(sign_extend(value, 32)))]
    ELSE Unmodelled

\* The class _postprocess_single decodes a length-delimited message value as.
postprocess_cls(meta) ==
    IF meta.proto_type = TYPE_MESSAGE /\ meta.wraps # ""
    THEN get_wrapper(meta.wraps) ELSE meta.cls

\* What _postprocess_single makes of a nested message decoded as r.
postprocess_message(meta, r) ==
    IF r.err # "" THEN [ok |-> FALSE, err |-> r.err]
    ELSE IF meta.proto_type = TYPE_MAP THEN [ok |-> TRUE, value |-> Val(r.m)]
    ELSE IF meta.wraps # ""
    THEN [ok |-> TRUE, value |-> getattribute(r.m, "value")]
    ELSE [ok |-> TRUE, value |-> Val([r.m EXCEPT !.sow = TRUE])]

\* What _postprocess_single makes of a string value decoded as r.
postprocess_string(r) == IF r.ok THEN [ok |-> TRUE, value |-> Val(r.s)] ELSE r

\* _postprocess_single(proto_meta, wire_type, meta, field_name, value):
\* the value returned, or the exception.
postprocess_single(wire_type, meta, value, none) ==
    IF none THEN [ok |-> TRUE, value |-> None]
    ELSE IF wire_type = WIRE_VARINT THEN postprocess_varint(meta, value)
    ELSE IF wire_type \in {WIRE_FIXED_32, WIRE_FIXED_64}
    THEN [ok |-> FALSE, err |-> "KeyError"]
    ELSE IF meta.proto_type = TYPE_STRING
    THEN postprocess_string(utf8_decode(value))
    ELSE IF meta.proto_type \in {TYPE_MESSAGE, TYPE_MAP}
    THEN postprocess_message(meta,
             deserialize_from_bytes(NewMessage(postprocess_cls(meta)), value))
    ELSE Unmodelled

RECURSIVE decode_packed(_, _, _)
\* The loop over a packed payload (varint elements): the list, or the exception.
decode_packed(meta, payload, pos) ==
    IF pos >= Len(payload) THEN [ok |-> TRUE, value |-> <<>>]
    ELSE LET d == decode_varint(payload, pos)
         IN  IF ~d.ok THEN d
             ELSE LET one == postprocess_varint(meta, d.value)
                      rest == decode_packed(meta, payload, d.pos)
                  IN  IF ~one.ok THEN one
                      ELSE IF ~rest.ok THEN rest
                      ELSE [ok |-> TRUE, value |-> <<one.value.v>> \o rest.value]

unknown_fields_add_Front(unknown_fields, raw) == raw \o unknown_fields
\* message._unknown_fields += parsed.raw
unknown_fields_add(unknown_fields, raw) == unknown_fields \o raw

\* The value deserialize_from_bytes decodes for a field of the class: a
\* packed list, or one value.
decode_value(parsed, meta, packed) ==
    IF packed
    THEN LET l == decode_packed(meta, parsed.value, 0)
         IN  IF l.ok THEN [ok |-> TRUE, value |-> Val(l.value)] ELSE l
    ELSE postprocess_single(parsed.wire_type, meta, parsed.value, parsed.none)

\* How deserialize_from_bytes stores the decoded value r: a map entry, an
\* element appended to the current list, or the attribute set.  current is
\* getattr(message, field_name) and m1 the message with it cached.
store_value(message, m1, current, field_name, meta, packed, r) ==
    IF ~r.ok THEN [m |-> message, err |-> r.err]
    ELSE IF meta.proto_type = TYPE_MAP
    THEN IF r.value.k = "none" THEN [m |-> m1, err |-> "AttributeError"]
         ELSE [m |-> [m1 EXCEPT !.f[field_name] =
                         Val(DictSet(current.v,
                                     getattribute(r.value.v, "key").v,
                                     getattribute(r.value.v, "value").v))],
               err |-> ""]
    ELSE IF meta.repeated /\ current.k = "val" /\ ~packed
    THEN IF r.value.k = "none" THEN [m |-> m1, err |-> "unmodelled"]
         ELSE [m |-> [m1 EXCEPT !.f[field_name] = Val(Append(current.v, r.value.v))],
               err |-> ""]
    ELSE IF packed # meta.repeated /\ r.value.k = "val"
    THEN [m |-> m1, err |-> "unmodelled"]
    ELSE [m |-> setattr(m1, field_name, r.value), err |-> ""]

\* The loop body for a field the class declares.
deserialize_known(message, parsed, field_name, meta, packed) ==
    store_value(message, after_getattribute(message, field_name),
                getattribute(message, field_name), field_name, meta, packed,
                decode_value(parsed, meta, packed))

\* The loop body once field_name_by_number has been looked up ("" for a
\* number the class does not declare).
deserialize_named(message, parsed, field_name, meta) ==
    IF field_name = ""
    THEN [m |-> [message EXCEPT !.unk = unknown_fields_add(message.unk, parsed.raw)],
          err |-> ""]
    ELSE deserialize_known(message, parsed, field_name, meta,
             parsed.wire_type = WIRE_LEN_DELIM /\ meta.proto_type \in PACKED_TYPES)

\* The body of deserialize_from_bytes's loop for one parsed field: the
\* message afterwards, and the exception raised ("" if none).
deserialize_field(message, parsed) ==
    deserialize_named(message, parsed,
                      field_name_by_number(message.cls, parsed.number),
                      MetaOf(message.cls, field_name_by_number(message.cls, parsed.number)))

RECURSIVE deserialize_fields(_, _, _)
\* The loop of deserialize_from_bytes from the state r: it ends at the first
\* exception, and after the last field with the exception of parse_fields.
deserialize_fields(r, fields, err) ==
    IF r.err # "" THEN r
    ELSE IF fields = <<>> THEN [m |-> r.m, err |-> err]
    ELSE deserialize_fields(deserialize_field(r.m, Head(fields)), Tail(fields), err)

\* The loop of deserialize_from_bytes over what parse_fields yields.
deserialize_parsed(message, parsed) ==
    deserialize_fields([m |-> message, err |-> ""], parsed.fields, parsed.err)

\* deserialize_from_bytes(message, data): the message afterwards (it is
\* updated in place up to the exception) and the exception ("" if none).
\* deserialize_from_bytes(cls, data) is the call on NewMessage(cls).
deserialize_from_bytes(message, data) ==
    deserialize_parsed([message EXCEPT !.sow = TRUE], parse_fields(data))

\* which_one_of(message, group_name): (field name, value), value None as None.
which_one_of(message, group_name) ==
    LET field_name == IF group_name \in DOMAIN message.gc THEN message.gc[group_name] ELSE ""
    IN  IF field_name = "" THEN <<"", None>>
        ELSE <<field_name, getattribute(message, field_name)>>

\* ---------------------------------------------------------------- variables

VARIABLES
    msg,      \* the message instance under observation
    op,       \* the last operation applied to msg
    written,  \* per one-of group, the field given a value last ("" if none)
    unk_sent, \* the well-formed undeclared records decoded into msg, in wire order
    bad_seen, \* whether a record of wire type 3, 4, 6 or 7 was decoded into msg
    steps,    \* the number of operations applied since construction
    vbuf,     \* the buffer handed to decode_varint
    vstart,   \* the position decode_varint starts at
    vres,     \* what decode_varint(vbuf, vstart) gave
    ivalue,   \* the integer handed to the integer encodings
    itype,    \* the proto type it was last encoded as ("" before)
    ires,     \* the bytes it was encoded to and the integer decoded from them
    request,  \* the .proto files of the CodeGeneratorRequest, in order
    disk,     \* the directories of the working directory that hold an __init__.py
    responses, \* the responses of the runs on the request, in order
    tpackage, \* the package string a TypeManager was made for
    tself,    \* its self.package
    imports,  \* its _imports
    from_imports, \* its _from_imports, as (module, name) pairs
    refs,     \* the calls of get_type_reference on it, in order
    sources,  \* the FileDescriptorProtos given to add_source_files, in order
    cfiles,   \* Compiler.files, in the same order
    cspliced, \* Compiler.compile has spliced the extensions
    fdata,    \* the records protoc wrote for one FieldDescriptorProto
    fmodel,   \* the FieldDescriptorProto the plugin decoded from them
    fdecoded, \* main has run
    server,   \* Server._server: None, or the state of the grpc server it holds
    waiting,  \* a thread is inside wait_closed
    scall,    \* the last call on the Server: self._server before it, what it raised
    scalls,   \* the number of calls made
    pfile,    \* the FileDescriptorProto protoc describes a .proto with
    emitted,  \* the class statements of the code ProtoFile.compile returned
    pcompiled, \* ProtoFile.compile has run
    dmsg, \* the message whose dict projections are taken
    dcall, \* the last projection taken of it, and its include_defaults
    dout, \* the dict the projection returned
    dcalls, \* the number of projections taken
    closables, \* SignalHandler._closables: what the close() of each does
    hfirst, \* SignalHandler._first
    hframe, \* the call of _handle_signal that is inside the loop, if any
    hclosed, \* the closables close() was called on, in the order of the calls
    hcalls, \* the calls of _handle_signal, in the order the signals came
    stub, \* the attributes of a client stub: _timeout and _metadata
    rcalls, \* per task, the RPC helper it is in, its arguments and its request kwargs
    requests, \* the requests the channel was asked for, in order
    gpc, \* where the _stream_stream generator stands
    sending_task, \* the state of the task that runs _send_messages
    remaining, \* the messages the request iterator has yet to give
    wire, \* what was done on the stream, in order
    yielded \* the number of responses the generator yielded

messageVars == <<msg, op, written, unk_sent, bad_seen, steps>>
varintVars == <<vbuf, vstart, vres>>
intVars == <<ivalue, itype, ires>>
outputVars == <<request, disk, responses>>
typeVars == <<tpackage, tself, imports, from_imports, refs>>
spliceVars == <<sources, cfiles, cspliced>>
oneofVars == <<fdata, fmodel, fdecoded>>
serverVars == <<server, waiting, scall, scalls>>
emitVars == <<pfile, emitted, pcompiled>>
dictVars == <<dmsg, dcall, dout, dcalls>>
signalVars == <<closables, hfirst, hframe, hclosed, hcalls>>
clientVars == <<stub, rcalls, requests>>
streamVars == <<gpc, sending_task, remaining, wire, yielded>>
vars ==
    <<messageVars, varintVars, intVars, outputVars, typeVars, spliceVars,
      oneofVars, serverVars, emitVars, dictVars, signalVars, clientVars,
      streamVars>>

\* ------------------------------------------------------ the life of a message

\* The values given to fields, by kind.
ScalarInts == {0, 1, 0 - 1}
ItemInts == {0, 150}
Strings == {<<>>, <<233>>}
MapKeys == {<<>>, <<107>>}
Inners == {NewMessage("Inner"),
           Construct("Inner", [n \in {"v"} |-> Val(0)]),
           Construct("Inner", [n \in {"v"} |-> Val(1)])}
InnerItems == {NewMessage("Inner"), Construct("Inner", [n \in {"v"} |-> Val(1)])}

Lists(S) == UNION {[1..n -> S] : n \in 0..MaxListLen}
Dicts(K, V) ==
    {d \in Lists([key : K, value : V]) :
        \A i, j \in 1..Len(d) : i # j => d[i].key # d[j].key}

\* The values a caller gives to the field meta (as a keyword argument or by
\* assignment).
FieldValues(meta) ==
    IF meta.proto_type = TYPE_MAP
    THEN {Val(d) : d \in Dicts(MapKeys, IF meta.map_types[2] = TYPE_STRING THEN Strings
                                        ELSE IF meta.map_types[2] = TYPE_MESSAGE
                                        THEN InnerItems ELSE {0, 1})}
    ELSE IF meta.repeated
    THEN {Val(l) : l \in Lists(IF meta.proto_type = TYPE_MESSAGE THEN InnerItems
                               ELSE IF meta.proto_type = TYPE_STRING THEN Strings
                               ELSE ItemInts)}
    ELSE IF meta.optional \/ meta.wraps # ""
    THEN {None} \cup {Val(v) : v \in {0, 1}}
    ELSE IF meta.proto_type = TYPE_MESSAGE THEN {Val(v) : v \in Inners}
    ELSE IF meta.proto_type = TYPE_STRING THEN {Val(v) : v \in Strings}
    ELSE {Val(v) : v \in ScalarInts}

Classes == {"Scalars", "OneOf", "Rep", "RepMsg", "Maps"}

RECURSIVE InitFields(_, _)
\* What the dataclass __init__ stores in the first i fields: the keyword
\* argument, or the field's default.
InitFields(cls, i) ==
    IF i = 0 THEN {<<>>}
    ELSE LET meta == meta_by_field_name(cls)[i]
         IN  {[n \in DOMAIN f \cup {meta.name} |-> IF n = meta.name THEN v ELSE f[n]] :
                 f \in InitFields(cls, i - 1),
                 v \in {proto_field_default(meta)} \cup FieldValues(meta)}

\* Whether the keyword argument of field name was given a value.
Given(cls, f, name) ==
    f[name].k # "unset" /\ ~(MetaOf(cls, name).optional /\ f[name].k = "none")
IndexOfField(cls, name) ==
    CHOOSE i \in 1..NumFields(cls) : meta_by_field_name(cls)[i].name = name
\* The field of group given a value by the constructor last, "" if none.
LastGiven(cls, f, group) ==
    LET given == {n \in oneof_field_by_group(cls, group) : Given(cls, f, n)}
    IN  IF given = {} THEN ""
        ELSE CHOOSE n \in given :
                 \A o \in given : IndexOfField(cls, o) <= IndexOfField(cls, n)

\* An operation: its kind, the field it names, the exception it raised ("" if
\* none), and whether its input held a record of wire type 3, 4, 6 or 7.
Op(kind, field, err, bad) == [kind |-> kind, field |-> field, err |-> err, bad |-> bad]

\* No varint, no integer takes part.
VarintIdle == vbuf = <<>> /\ vstart = 0 /\ vres = decode_varint(vbuf, vstart)
IntIdle == ivalue = PyIntOf(0) /\ itype = "" /\ ires = <<>>
OutputIdle == request = <<>> /\ disk = {} /\ responses = <<>>
TypeIdle ==
    tpackage = <<>> /\ tself = <<>> /\ imports = {} /\ from_imports = {} /\ refs = <<>>
SpliceIdle == sources = <<>> /\ cfiles = <<>> /\ cspliced = FALSE
OneofIdle == fdata = <<>> /\ fmodel = NewMessage("Inner") /\ fdecoded = FALSE
EmitIdle ==
    /\ pfile = [enum_type |-> <<>>, message_type |-> <<>>, service |-> <<>>]
    /\ emitted = <<>>
    /\ pcompiled = FALSE
ServerIdle ==
    /\ server = "None"
    /\ waiting = FALSE
    /\ scall = [call |-> "__init__", arg |-> "", before |-> "None", raised |-> ""]
    /\ scalls = 0
DictIdle ==
    /\ dmsg = NewMessage("Inner")
    /\ dcall = [call |-> "__init__", include_defaults |-> FALSE]
    /\ dout = <<>>
    /\ dcalls = 0
SignalIdle ==
    /\ closables = <<>>
    /\ hfirst = TRUE
    /\ hframe = [sig |-> 0, i |-> 0, fail |-> FALSE]
    /\ hclosed = <<>>
    /\ hcalls = <<>>
ClientIdle ==
    /\ stub = [timeout |-> None, metadata |-> None]
    /\ rcalls = <<>>
    /\ requests = <<>>
StreamIdle ==
    /\ gpc = "created"
    /\ sending_task = "none"
    /\ remaining = 0
    /\ wire = <<>>
    /\ yielded = 0

\* No message takes part.
MessageIdle ==
    /\ msg = NewMessage("Inner")
    /\ op = Op("init", "", "", FALSE)
    /\ written = <<>>
    /\ unk_sent = <<>>
    /\ bad_seen = FALSE
    /\ steps = 0

\* What the steps of each part of the model leave alone, and where the
\* other parts stand when one of them runs.
MessageFrame ==
    UNCHANGED <<varintVars, intVars, outputVars, typeVars, spliceVars,
                oneofVars, serverVars, emitVars, dictVars, signalVars,
                clientVars, streamVars>>
VarintFrame ==
    UNCHANGED <<messageVars, intVars, outputVars, typeVars, spliceVars,
                oneofVars, serverVars, emitVars, dictVars, signalVars,
                clientVars, streamVars>>
IntFrame ==
    UNCHANGED <<messageVars, varintVars, outputVars, typeVars, spliceVars,
                oneofVars, serverVars, emitVars, dictVars, signalVars,
                clientVars, streamVars>>
OutputFrame ==
    UNCHANGED <<messageVars, varintVars, intVars, typeVars, spliceVars,
                oneofVars, serverVars, emitVars, dictVars, signalVars,
                clientVars, streamVars>>
TypeFrame ==
    UNCHANGED <<messageVars, varintVars, intVars, outputVars, spliceVars,
                oneofVars, serverVars, emitVars, dictVars, signalVars,
                clientVars, streamVars>>
SpliceFrame ==
    UNCHANGED <<messageVars, varintVars, intVars, outputVars, typeVars,
                oneofVars, serverVars, emitVars, dictVars, signalVars,
                clientVars, streamVars>>
OneofFrame ==
    UNCHANGED <<messageVars, varintVars, intVars, outputVars, typeVars,
                spliceVars, serverVars, emitVars, dictVars, signalVars,
                clientVars, streamVars>>
ServerFrame ==
    UNCHANGED <<messageVars, varintVars, intVars, outputVars, typeVars,
                spliceVars, oneofVars, emitVars, dictVars, signalVars,
                clientVars, streamVars>>
EmitFrame ==
    UNCHANGED <<messageVars, varintVars, intVars, outputVars, typeVars,
                spliceVars, oneofVars, serverVars, dictVars, signalVars,
                clientVars, streamVars>>
DictFrame ==
    UNCHANGED <<messageVars, varintVars, intVars, outputVars, typeVars,
                spliceVars, oneofVars, serverVars, emitVars, signalVars,
                clientVars, streamVars>>
SignalFrame ==
    UNCHANGED <<messageVars, varintVars, intVars, outputVars, typeVars,
                spliceVars, oneofVars, serverVars, emitVars, dictVars,
                clientVars, streamVars>>
ClientFrame ==
    UNCHANGED <<messageVars, varintVars, intVars, outputVars, typeVars,
                spliceVars, oneofVars, serverVars, emitVars, dictVars,
                signalVars, streamVars>>
StreamFrame ==
    UNCHANGED <<messageVars, varintVars, intVars, outputVars, typeVars,
                spliceVars, oneofVars, serverVars, emitVars, dictVars,
                signalVars, clientVars>>
MessageRest ==
    /\ VarintIdle /\ IntIdle /\ OutputIdle /\ TypeIdle /\ SpliceIdle
    /\ OneofIdle /\ ServerIdle /\ EmitIdle /\ DictIdle /\ SignalIdle
    /\ ClientIdle /\ StreamIdle
VarintRest ==
    /\ MessageIdle /\ IntIdle /\ OutputIdle /\ TypeIdle /\ SpliceIdle
    /\ OneofIdle /\ ServerIdle /\ EmitIdle /\ DictIdle /\ SignalIdle
    /\ ClientIdle /\ StreamIdle
IntRest ==
    /\ MessageIdle /\ VarintIdle /\ OutputIdle /\ TypeIdle /\ SpliceIdle
    /\ OneofIdle /\ ServerIdle /\ EmitIdle /\ DictIdle /\ SignalIdle
    /\ ClientIdle /\ StreamIdle
OutputRest ==
    /\ MessageIdle /\ VarintIdle /\ IntIdle /\ TypeIdle /\ SpliceIdle
    /\ OneofIdle /\ ServerIdle /\ EmitIdle /\ DictIdle /\ SignalIdle
    /\ ClientIdle /\ StreamIdle
TypeRest ==
    /\ MessageIdle /\ VarintIdle /\ IntIdle /\ OutputIdle /\ SpliceIdle
    /\ OneofIdle /\ ServerIdle /\ EmitIdle /\ DictIdle /\ SignalIdle
    /\ ClientIdle /\ StreamIdle
SpliceRest ==
    /\ MessageIdle /\ VarintIdle /\ IntIdle /\ OutputIdle /\ TypeIdle
    /\ OneofIdle /\ ServerIdle /\ EmitIdle /\ DictIdle /\ SignalIdle
    /\ ClientIdle /\ StreamIdle
OneofRest ==
    /\ MessageIdle /\ VarintIdle /\ IntIdle /\ OutputIdle /\ TypeIdle
    /\ SpliceIdle /\ ServerIdle /\ EmitIdle /\ DictIdle /\ SignalIdle
    /\ ClientIdle /\ StreamIdle
ServerRest ==
    /\ MessageIdle /\ VarintIdle /\ IntIdle /\ OutputIdle /\ TypeIdle
    /\ SpliceIdle /\ OneofIdle /\ EmitIdle /\ DictIdle /\ SignalIdle
    /\ ClientIdle /\ StreamIdle
EmitRest ==
    /\ MessageIdle /\ VarintIdle /\ IntIdle /\ OutputIdle /\ TypeIdle
    /\ SpliceIdle /\ OneofIdle /\ ServerIdle /\ DictIdle /\ SignalIdle
    /\ ClientIdle /\ StreamIdle
DictRest ==
    /\ MessageIdle /\ VarintIdle /\ IntIdle /\ OutputIdle /\ TypeIdle
    /\ SpliceIdle /\ OneofIdle /\ ServerIdle /\ EmitIdle /\ SignalIdle
    /\ ClientIdle /\ StreamIdle
SignalRest ==
    /\ MessageIdle /\ VarintIdle /\ IntIdle /\ OutputIdle /\ TypeIdle
    /\ SpliceIdle /\ OneofIdle /\ ServerIdle /\ EmitIdle /\ DictIdle
    /\ ClientIdle /\ StreamIdle
ClientRest ==
    /\ MessageIdle /\ VarintIdle /\ IntIdle /\ OutputIdle /\ TypeIdle
    /\ SpliceIdle /\ OneofIdle /\ ServerIdle /\ EmitIdle /\ DictIdle
    /\ SignalIdle /\ StreamIdle
StreamRest ==
    /\ MessageIdle /\ VarintIdle /\ IntIdle /\ OutputIdle /\ TypeIdle
    /\ SpliceIdle /\ OneofIdle /\ ServerIdle /\ EmitIdle /\ DictIdle
    /\ SignalIdle /\ ClientIdle

Init ==
    /\ \E cls \in Classes : \E f \in InitFields(cls, NumFields(cls)) :
          /\ msg = post_init(cls, f)
          /\ written = [g \in GroupsOf(cls) |-> LastGiven(cls, f, g)]
    /\ op = Op("init", "", "", FALSE)
    /\ unk_sent = <<>>
    /\ bad_seen = FALSE
    /\ steps = 0
    /\ MessageRest

\* m.name = value
SetAttr ==
    /\ steps < MaxSteps
    /\ \E name \in FieldNames(msg.cls) : \E value \in FieldValues(MetaOf(msg.cls, name)) :
          /\ msg' = setattr(msg, name, value)
          /\ op' = Op("set", name, "", FALSE)
          /\ written' = IF MetaOf(msg.cls, name).group # ""
                        THEN [written EXCEPT ![MetaOf(msg.cls, name).group] = name]
                        ELSE written
    /\ steps' = steps + 1
    /\ UNCHANGED <<unk_sent, bad_seen>>
    /\ MessageFrame

\* m.name, read
GetAttr ==
    /\ steps < MaxSteps
    /\ \E name \in FieldNames(msg.cls) :
          /\ msg' = after_getattribute(msg, name)
          /\ op' = Op("get", name, "", FALSE)
    /\ steps' = steps + 1
    /\ UNCHANGED <<written, unk_sent, bad_seen>>
    /\ MessageFrame

\* m.name.v = v, on the nested message that reading m.name returns
EditNested ==
    /\ steps < MaxSteps
    /\ \E name \in FieldNames(msg.cls) : \E v \in {0, 1} :
          /\ MetaOf(msg.cls, name).proto_type = TYPE_MESSAGE
          /\ MetaOf(msg.cls, name).wraps = ""
          /\ ~MetaOf(msg.cls, name).repeated
          /\ getattribute(msg, name).k = "val"
          /\ msg' = [after_getattribute(msg, name) EXCEPT !.f[name] =
                        Val(setattr(getattribute(msg, name).v, "v", Val(v)))]
          /\ op' = Op("edit", name, "", FALSE)
    /\ steps' = steps + 1
    /\ UNCHANGED <<written, unk_sent, bad_seen>>
    /\ MessageFrame

\* bytes(m)
Serialize ==
    /\ steps < MaxSteps
    /\ msg' = after_serialize(msg)
    /\ op' = Op("bytes", "", "", FALSE)
    /\ steps' = steps + 1
    /\ UNCHANGED <<written, unk_sent, bad_seen>>
    /\ MessageFrame

\* A record as a legitimate encoder writes it: the tag, the length before a
\* length-delimited payload, the payload.
Rec(number, wire_type, payload) ==
    [number |-> number, wire_type |-> wire_type,
     raw |-> <<number * 8 + wire_type>>
               \o (IF wire_type = WIRE_LEN_DELIM THEN <<Len(payload)>> ELSE <<>>)
               \o payload]

\* The wire types with a payload format.
WellFormedWireTypes == {WIRE_VARINT, WIRE_FIXED_64, WIRE_LEN_DELIM, WIRE_FIXED_32}

\* The buffers decoded into a message of class cls, as sequences of records.
\* Numbers 13 to 15 are declared by no class.
WireSamples(cls) ==
    CASE cls = "Scalars" ->
           {<<Rec(1, 0, <<1>>)>>,
            <<Rec(3, 0, <<0>>)>>,
            <<Rec(4, 2, <<>>)>>,
            <<Rec(15, 0, <<1>>)>>,
            <<Rec(15, 2, <<7>>), Rec(1, 0, <<0>>), Rec(14, 5, <<1, 2, 3, 4>>)>>,
            <<Rec(1, 3, <<>>)>>,
            <<Rec(15, 4, <<>>)>>}
      [] cls = "OneOf" ->
           {<<Rec(2, 2, <<107>>)>>,
            <<Rec(3, 0, <<0>>)>>,
            <<Rec(4, 2, <<>>)>>,
            <<Rec(2, 2, <<>>), Rec(3, 0, <<1>>)>>,
            <<Rec(15, 1, <<1, 2, 3, 4, 5, 6, 7, 8>>)>>,
            <<Rec(3, 7, <<>>)>>}
      [] cls = "Rep" ->
           {<<Rec(2, 2, <<1, 150, 1>>)>>,
            <<Rec(2, 0, <<1>>)>>,
            <<Rec(3, 2, <<>>)>>,
            <<Rec(1, 2, <<>>)>>,
            <<Rec(15, 0, <<1>>), Rec(13, 2, <<>>)>>,
            <<Rec(15, 6, <<>>)>>}
      [] cls = "RepMsg" ->
           {<<Rec(1, 2, <<8, 1>>)>>,
            <<Rec(2, 2, <<>>)>>,
            <<Rec(15, 5, <<1, 2, 3, 4>>)>>}
      [] cls = "Maps" ->
           {<<Rec(1, 2, <<10, 1, 107, 18, 0>>)>>,
            <<Rec(1, 2, <<>>)>>,
            <<Rec(2, 2, <<16, 1>>)>>,
            <<Rec(15, 0, <<1>>)>>}

RECURSIVE Concat(_)
\* The bytes of a sequence of records.
Concat(recs) == IF recs = <<>> THEN <<>> ELSE Head(recs).raw \o Concat(Tail(recs))

\* The records of recs that cls does not declare and whose wire type has a
\* payload format.
UnknownRecs(cls, recs) ==
    SelectSeq(recs, LAMBDA r : /\ field_name_by_number(cls, r.number) = ""
                               /\ r.wire_type \in WellFormedWireTypes)
HasBadWireType(recs) ==
    \E i \in 1..Len(recs) : recs[i].wire_type \notin WellFormedWireTypes

\* The field of group that the records of recs name last, or before.
LastNamed(cls, recs, group, before) ==
    LET named == {i \in 1..Len(recs) :
                     field_name_by_number(cls, recs[i].number)
                         \in oneof_field_by_group(cls, group)}
    IN  IF named = {} THEN before
        ELSE field_name_by_number(cls,
                 recs[CHOOSE i \in named : \A j \in named : j <= i].number)

\* The name of the field of the last record, "" if undeclared.
LastField(cls, recs) == field_name_by_number(cls, recs[Len(recs)].number)

\* m.parse(data): the records are merged into msg.
Decode ==
    /\ steps < MaxSteps
    /\ \E recs \in WireSamples(msg.cls) :
          LET r == deserialize_from_bytes(msg, Concat(recs))
          IN  /\ msg' = r.m
              /\ op' = Op("decode", LastField(msg.cls, recs), r.err, HasBadWireType(recs))
              /\ written' = [g \in DOMAIN written |->
                                LastNamed(msg.cls, recs, g, written[g])]
              /\ unk_sent' = unk_sent \o Concat(UnknownRecs(msg.cls, recs))
              /\ bad_seen' = (bad_seen \/ HasBadWireType(recs))
    /\ steps' = steps + 1
    /\ MessageFrame

\* deserialize_from_bytes(type(m), data): a new instance takes msg's place.
Parse ==
    /\ steps < MaxSteps
    /\ \E recs \in WireSamples(msg.cls) :
          LET r == deserialize_from_bytes(NewMessage(msg.cls), Concat(recs))
          IN  /\ msg' = r.m
              /\ op' = Op("parse", LastField(msg.cls, recs), r.err, HasBadWireType(recs))
              /\ written' = [g \in DOMAIN written |-> LastNamed(msg.cls, recs, g, "")]
              /\ unk_sent' = Concat(UnknownRecs(msg.cls, recs))
              /\ bad_seen' = HasBadWireType(recs)
    /\ steps' = steps + 1
    /\ MessageFrame

Next == SetAttr \/ GetAttr \/ EditNested \/ Serialize \/ Decode \/ Parse

Spec == Init /\ [][Next]_vars

\* ------------------------------------------------- properties of a message

\* The records of bytes(msg), as parse_fields reads them.
EmittedFields == parse_fields(serialize_to_bytes(msg)).fields
\* The records of bytes(msg) that carry the field number.
EmittedWith(number) == SelectSeq(EmittedFields, LAMBDA p : p.number = number)

\* C1: decoding the bytes of a message into a new instance of its class gives
\* a message equal to it under Message.__eq__.
C1_DecodeEncode ==
    LET r == deserialize_from_bytes(NewMessage(msg.cls), serialize_to_bytes(msg))
    IN  r.err = "" /\ MessageEq(r.m, msg)

\* C2: the bytes serialize_to_bytes produces for a message are reproduced by
\* decoding them into a new instance and serializing that.
C2_EncodeDecode ==
    LET b == serialize_to_bytes(msg)
        r == deserialize_from_bytes(NewMessage(msg.cls), b)
    IN  r.err = "" /\ serialize_to_bytes(r.m) = b

\* C3: a field left unchanged (it holds what the constructor stores when no
\* argument is given) has no record in bytes(msg), unless it is the field its
\* one-of group selects.
C3_DefaultNotEmitted ==
    \A name \in FieldNames(msg.cls) :
        LET meta == MetaOf(msg.cls, name)
        IN  (/\ msg.f[name] = proto_field_default(meta)
             /\ ~(meta.group # "" /\ msg.gc[meta.group] = name))
            => EmittedWith(meta.number) = <<>>

\* C4: an assignment to a field of a one-of group, after whatever came
\* before, leaves the group selecting that field and every other field of
\* the group at the UNSET sentinel.
C4_AssignSelects ==
    (op.kind = "set" /\ MetaOf(msg.cls, op.field).group # "") =>
        LET group == MetaOf(msg.cls, op.field).group
        IN  /\ msg.gc[group] = op.field
            /\ \A n \in oneof_field_by_group(msg.cls, group) \ {op.field} :
                  msg.f[n] = Unset

\* An assignment to b of OneOf came second, after an operation on a message
\* that the constructor or that operation had given another field of g.
C4_Witness ==
    /\ msg.cls = "OneOf"
    /\ steps = MaxSteps
    /\ op.kind = "set"
    /\ op.field = "b"
    /\ msg.gc["g"] = "b"
    /\ msg.f["a"] = Unset
    /\ msg.f["c"] = Unset

\* C5: which_one_of gives ("", None) for a group no field of which was given
\* a value, and otherwise the field of the group written last with the value
\* the message holds for it; that field is the one _group_current names.
C5_WhichOneOf ==
    /\ which_one_of(msg, "no_such_group") = <<"", None>>
    /\ \A group \in GroupsOf(msg.cls) :
          LET w == which_one_of(msg, group)
          IN  IF written[group] = ""
              THEN w[1] = "" /\ w[2] = None
              ELSE /\ w[1] = written[group]
                   /\ msg.gc[group] = written[group]
                   /\ w[2] = msg.f[written[group]]
                   /\ w[2] # Unset

\* A decode into a OneOf that had another field selected made b the field
\* written last, and which_one_of reports b with the decoded value.
C5_Witness ==
    /\ msg.cls = "OneOf"
    /\ steps = MaxSteps
    /\ op.kind = "decode"
    /\ written["g"] = "b"
    /\ which_one_of(msg, "g") = <<"b", Val(1)>>

\* C6: bytes(msg) holds records of at most one field of each one-of group.
C6_OneFieldPerGroup ==
    \A group \in GroupsOf(msg.cls) :
        Cardinality({n \in oneof_field_by_group(msg.cls, group) :
                        EmittedWith(MetaOf(msg.cls, n).number) # <<>>}) <= 1

\* C7: bytes(msg) holds, for every map field, as many length-delimited records
\* with the field's number as the dict has items.
C7_MapRecords ==
    \A name \in FieldNames(msg.cls) :
        LET meta == MetaOf(msg.cls, name)
            value == getattribute(msg, name)
        IN  (meta.proto_type = TYPE_MAP /\ value.k = "val") =>
                Len(SelectSeq(EmittedWith(meta.number),
                              LAMBDA p : p.wire_type = WIRE_LEN_DELIM))
                    = Len(value.v)

\* C8: when only records of wire types 0, 1, 2 and 5 were decoded into msg,
\* _unknown_fields is the undeclared ones of them, raw and in wire order, and
\* bytes(msg) is records of declared fields followed by exactly those bytes.
C8_UnknownFieldsKept ==
    ~bad_seen =>
        LET out == serialize_to_bytes(msg)
            k == Len(out) - Len(unk_sent)
        IN  /\ msg.unk = unk_sent
            /\ k >= 0
            /\ SubSeq(out, k + 1, Len(out)) = unk_sent
            /\ LET declared == parse_fields(SubSeq(out, 1, k))
               IN  /\ declared.err = ""
                   /\ SelectSeq(declared.fields,
                                 LAMBDA p : field_name_by_number(msg.cls, p.number) = "")
                          = <<>>

\* Two undeclared records with a declared one between them were decoded into
\* a Scalars that emits a declared field, and both follow it in bytes(msg).
C8_Witness ==
    /\ msg.cls = "Scalars"
    /\ op.kind = "decode"
    /\ ~bad_seen
    /\ unk_sent = <<122, 1, 7, 117, 1, 2, 3, 4>>
    /\ msg.unk = unk_sent
    /\ Len(serialize_to_bytes(msg)) > Len(unk_sent)

\* C9: a decode of bytes that hold a record of wire type 3, 4, 6 or 7 raises.
C9_BadWireTypeRaises ==
    (op.kind \in {"decode", "parse"} /\ op.bad) => op.err # ""

\* ------------------------------------------------- decode_varint on its own

\* Bytes with the continuation bit, and bytes without it.
ContinuationBytes == {128, 255}
FinalBytes == {0, 1, 127}

\* The varint proper: the bytes of vbuf from vstart on.
VarintBody == SubSeq(vbuf, vstart + 1, Len(vbuf))
\* The 1-based index of the first byte of s without the continuation bit; 0 if none.
FirstFinal(s) ==
    IF \E i \in 1..Len(s) : s[i] < 128
    THEN CHOOSE i \in 1..Len(s) : s[i] < 128 /\ \A j \in 1..(i - 1) : s[j] >= 128
    ELSE 0

VarintInit ==
    /\ vstart \in {0, 1}
    /\ vbuf = [i \in 1..vstart |-> 255]
    /\ vres = decode_varint(vbuf, vstart)
    /\ VarintRest

\* One more byte of an unfinished varint, and the call on the longer buffer.
VarintAppend ==
    /\ Len(vbuf) < vstart + MaxVarintLen
    /\ FirstFinal(VarintBody) = 0
    /\ \E b \in ContinuationBytes \cup FinalBytes :
          /\ vbuf' = Append(vbuf, b)
          /\ vres' = decode_varint(vbuf', vstart)
    /\ UNCHANGED vstart
    /\ VarintFrame

\* A byte after the end of the varint, and the call on the longer buffer.
VarintTrail ==
    /\ FirstFinal(VarintBody) # 0
    /\ Len(vbuf) < vstart + MaxVarintLen
    /\ vbuf[Len(vbuf)] < 128
    /\ \E b \in {1, 128} :
          /\ vbuf' = Append(vbuf, b)
          /\ vres' = decode_varint(vbuf', vstart)
    /\ UNCHANGED vstart
    /\ VarintFrame

VarintNext == VarintAppend \/ VarintTrail

SpecVarint == VarintInit /\ [][VarintNext]_vars

\* The 7 payload bits of a byte, least significant first.
Bits7(b) == [i \in 1..7 |-> ((b % 128) \div (2 ^ (i - 1))) % 2]
RECURSIVE VarintBits(_, _)
\* The value of the varint s[1..n]: the payload bits of its bytes, in order.
VarintBits(s, n) == IF n = 0 THEN <<>> ELSE VarintBits(s, n - 1) \o Bits7(s[n])

\* C10: decode_varint returns (value, next position) for every complete varint
\* of 1 to 10 bytes, and raises the ValueError "Too many bytes when decoding
\* varint." for every varint whose first 10 bytes all carry the continuation bit.
C10_DecodeVarint ==
    LET n == FirstFinal(VarintBody)
    IN  /\ (n >= 1 /\ n <= 10) =>
             vres = [ok |-> TRUE, value |-> Norm(VarintBits(VarintBody, n)),
                     pos |-> vstart + n]
        /\ (Len(VarintBody) >= 10 /\ \A i \in 1..10 : VarintBody[i] >= 128) =>
             vres = VarintError

\* A varint whose first 10 bytes all carry the continuation bit was refused.
C10_Witness ==
    /\ Len(VarintBody) >= 10
    /\ \A i \in 1..10 : VarintBody[i] >= 128
    /\ vres = VarintError
\* --------------------------------------------------- the integer encodings

\* The width of the 64-bit integer types.
INT64_BITS == 64

Ones(k) == [i \in 1..k |-> 1]
\* 1, 0, 1, 0, ... from the most significant bit down, k bits.
Alternating(k) == [i \in 1..k |-> (k - i + 1) % 2]

\* Integers of [-2^63, 2^63): the powers of two, their predecessors and an
\* alternating pattern of every length, with both signs.
IntSamples ==
    {PyInt(neg, Ones(k)) : neg \in BOOLEAN, k \in 0..(INT64_BITS - 1)}
    \cup {PyInt(neg, Alternating(k)) : neg \in BOOLEAN, k \in 0..(INT64_BITS - 1)}
    \cup {PyInt(neg, Pow2(k)) : neg \in BOOLEAN, k \in 0..(INT64_BITS - 2)}
    \cup {PyInt(TRUE, Pow2(INT64_BITS - 1))}

\* -2^31 <= n < 2^31
InRange32(n) == Len(n.mag) <= 31 \/ n = PyInt(TRUE, Pow2(31))

IntTypes == {TYPE_INT64, TYPE_SINT32, TYPE_SINT64}
Pending == [ok |-> FALSE, err |-> "pending"]

IntInit ==
    /\ ivalue \in IntSamples
    /\ itype = ""
    /\ ires = <<>>
    /\ IntRest

\* _preprocess_single(proto_type, "", value) of a field of an integer type.
IntEncode ==
    /\ \E t \in IntTypes :
          /\ itype' = t
          /\ ires' = [bytes |-> preprocess_int(t, ivalue), back |-> Pending]
    /\ UNCHANGED ivalue
    /\ IntFrame

\* decode_varint on the bytes, then _postprocess_single.
IntDecode ==
    /\ itype # ""
    /\ ires.back = Pending
    /\ ires' = [ires EXCEPT !.back = postprocess_decoded(itype, decode_varint(ires.bytes, 0))]
    /\ UNCHANGED <<ivalue, itype>>
    /\ IntFrame

IntNext == IntEncode \/ IntDecode

SpecInts == IntInit /\ [][IntNext]_vars

\* C11: for every integer n in [-2^63, 2^63), decode_varint(encode_varint(n))
\* followed by the int64 sign extension gives n, the encoding taking at most
\* 10 bytes; zig-zag followed by un-zig-zag gives n for sint64, and for sint32
\* when n is in the 32-bit range.
C11_IntegerRoundTrip ==
    (itype # "" /\ ires.back # Pending) =>
        /\ itype = TYPE_INT64 =>
              /\ Len(ires.bytes) <= 10
              /\ ires.back = [ok |-> TRUE, value |-> ivalue, pos |-> Len(ires.bytes)]
        /\ itype = TYPE_SINT64 =>
              ires.back = [ok |-> TRUE, value |-> ivalue, pos |-> Len(ires.bytes)]
        /\ (itype = TYPE_SINT32 /\ InRange32(ivalue)) =>
              ires.back = [ok |-> TRUE, value |-> ivalue, pos |-> Len(ires.bytes)]

\* -2^63 was encoded as an int64 in 10 bytes and decoded.
C11_Witness ==
    /\ ivalue = PyInt(TRUE, Pow2(INT64_BITS - 1))
    /\ itype = TYPE_INT64
    /\ ires.back # Pending
    /\ Len(ires.bytes) = 10

\* -2^63 went through the zig-zag encoding of sint64.
C11_WitnessZigZag ==
    /\ ivalue = PyInt(TRUE, Pow2(INT64_BITS - 1))
    /\ itype = TYPE_SINT64
    /\ ires.back # Pending
\* ------------------------------------------------ the plugin's response

MaxProtos == 2
MaxRuns == 2

\* A package is the tuple of its segments; () is the package "".  The path
\* pathlib.Path(*package.split("."), "__init__.py") is named by its directory.
PackageSegments == {"a", "b"}
Packages ==
    {<<>>} \cup {<<x>> : x \in PackageSegments}
           \cup {<<x, y>> : x \in PackageSegments, y \in PackageSegments}
           \cup {<<"google", "protobuf">>}

\* A FileDescriptorProto: its name, its package and whether it declares a
\* message, an enum or a service.
ProtoFiles(names) == [name : names, package : Packages, declares : BOOLEAN]

\* path.parents of the path of a directory's __init__.py: the directory, its
\* ancestors and ".".
parents(dir) == {SubSeq(dir, 1, k) : k \in 0..Len(dir)}

\* The set comprehension of the placeholders: directory.joinpath("__init__.py")
\* for every parent that does not exist, minus output_paths.
init_files(output_paths, on_disk) ==
    {d \in UNION {parents(path) : path \in output_paths} : d \notin on_disk}
        \ output_paths

\* The orders in which a set can be iterated.
Orders(S) ==
    {o \in [1..Cardinality(S) -> S] : \A i, j \in 1..Cardinality(S) : o[i] = o[j] => i = j}

File(name, generated) == [name |-> name, generated |-> generated]

\* The two `continue`s of the loop over the files.
skipped(file, include_google) ==
    \/ file.package = <<"google", "protobuf">> /\ ~include_google
    \/ ~file.declares

RECURSIVE compile_files(_, _)
\* Compiler.compile: the packages of the files that are compiled, one entry
\* per file, in the order of the files.
compile_files(files, include_google) ==
    IF files = <<>> THEN <<>>
    ELSE (IF skipped(Head(files), include_google) THEN <<>> ELSE <<Head(files).package>>)
             \o compile_files(Tail(files), include_google)

RECURSIVE output_packages(_, _, _)
\* generate_code: the keys of data.output_packages, in insertion order.
output_packages(files, include_google, seen) ==
    IF files = <<>> THEN seen
    ELSE output_packages(Tail(files), include_google,
             IF skipped(Head(files), include_google)
                \/ \E i \in 1..Len(seen) : seen[i] = Head(files).package
             THEN seen ELSE Append(seen, Head(files).package))

Range(seq) == {seq[i] : i \in 1..Len(seq)}

\* response.file: the generated files in order, then the placeholders in the
\* order the set init_files is iterated in.
response_files(outputs, order) ==
    [i \in 1..Len(outputs) |-> File(outputs[i], TRUE)]
        \o [i \in 1..Len(order) |-> File(order[i], FALSE)]

\* The response of a run, and the function that made it.
Response(by, file) == [by |-> by, file |-> file]

OutputInit ==
    /\ request = <<>>
    /\ disk \in SUBSET {<<>>, <<"a">>}
    /\ responses = <<>>
    /\ OutputRest

\* protoc puts one more .proto file into the request.
AddProto ==
    /\ responses = <<>>
    /\ Len(request) < MaxProtos
    /\ \E f \in ProtoFiles({Len(request) + 1}) : request' = Append(request, f)
    /\ UNCHANGED <<disk, responses>>
    /\ OutputFrame

\* One run of Compiler.compile(*request.file_to_generate).
Compile ==
    /\ request # <<>>
    /\ Len(responses) < MaxRuns
    /\ \E order \in Orders(init_files(Range(compile_files(request, FALSE)), disk)) :
          responses' = Append(responses,
                              Response("Compiler.compile",
                                       response_files(compile_files(request, FALSE), order)))
    /\ UNCHANGED <<request, disk>>
    /\ OutputFrame

\* One run of generate_code(request) of the parser.
GenerateCode ==
    /\ request # <<>>
    /\ Len(responses) < MaxRuns
    /\ \E order \in Orders(init_files(Range(output_packages(request, FALSE, <<>>)), disk)) :
          responses' = Append(responses,
                              Response("generate_code",
                                       response_files(output_packages(request, FALSE, <<>>), order)))
    /\ UNCHANGED <<request, disk>>
    /\ OutputFrame

OutputNext == AddProto \/ Compile \/ GenerateCode

SpecOutput == OutputInit /\ [][OutputNext]_vars

\* The names of a response.
Names(response) == {response.file[i].name : i \in 1..Len(response.file)}

\* C12: for every output path p/__init__.py of a response, every ancestor
\* directory of p has an __init__.py entry in the same response.
C12_AncestorsHaveInit ==
    \A r \in 1..Len(responses) : \A name \in Names(responses[r]) :
        \A k \in 1..(Len(name) - 1) : SubSeq(name, 1, k) \in Names(responses[r])

\* C13: no two entries of response.file have the same name, and no
\* placeholder has the name of a generated file.
C13_OneUnitPerPath ==
    \A r \in 1..Len(responses) : \A i, j \in 1..Len(responses[r].file) :
        responses[r].file[i].name = responses[r].file[j].name => i = j

\* C14: two runs of the same function on the same request produce the same
\* response, the order of the response files (placeholders included) being
\* the same.
C14_Deterministic ==
    \A r, q \in 1..Len(responses) :
        responses[r].by = responses[q].by => responses[r].file = responses[q].file
\* ------------------------------------------------------- the TypeManager

MaxRefs == 2
MaxDepth == 3

\* A str is the sequence of its characters.  The lower-case words "google",
\* "protobuf", "cbiproto" and "lib" stand as one character each.
IsUpper(c) == c \in {"M"}

RECURSIVE Join(_, _)
\* sep.join(parts)
Join(parts, sep) ==
    IF parts = <<>> THEN <<>>
    ELSE IF Len(parts) = 1 THEN parts[1]
    ELSE parts[1] \o sep \o Join(Tail(parts), sep)

RECURSIVE Split(_, _)
\* s.split(c)
Split(s, c) ==
    IF \A i \in 1..Len(s) : s[i] # c THEN <<s>>
    ELSE LET k == CHOOSE i \in 1..Len(s) : s[i] = c /\ \A j \in 1..(i - 1) : s[j] # c
         IN  <<SubSeq(s, 1, k - 1)>> \o Split(SubSeq(s, k + 1, Len(s)), c)

\* c * n
Repeat(c, n) == [i \in 1..n |-> c]

RECURSIVE lstrip(_, _)
\* s.lstrip(c)
lstrip(s, c) == IF s # <<>> /\ s[1] = c THEN lstrip(Tail(s), c) ELSE s

\* The length of the longest match of ([^A-Z]+) from start on that "\.(.+)"
\* can follow; 0 if there is none.
package_match(s, start) ==
    LET ok == {n \in 1..(Len(s) - start - 2) :
                  /\ \A i \in 1..n : ~IsUpper(s[start + i])
                  /\ s[start + n + 1] = "."}
    IN  IF ok = {} THEN 0 ELSE CHOOSE n \in ok : \A m \in ok : m <= n

\* The two groups of the match that starts at start and takes n characters.
package_groups(s, start, n) ==
    [package |-> SubSeq(s, start + 1, start + n), name |-> SubSeq(s, start + n + 2, Len(s))]

\* parse_source_type_name(field_type_name): re.match(r"^\.?([^A-Z]+)\.(.+)"),
\* the optional dot taken first and given back if nothing matches after it.
parse_source_type_name(field_type_name) ==
    IF field_type_name # <<>> /\ field_type_name[1] = "."
       /\ package_match(field_type_name, 1) > 0
    THEN package_groups(field_type_name, 1, package_match(field_type_name, 1))
    ELSE IF package_match(field_type_name, 0) > 0
    THEN package_groups(field_type_name, 0, package_match(field_type_name, 0))
    ELSE [package |-> <<>>, name |-> lstrip(field_type_name, ".")]

\* pascal_case of a name of one word: its first letter in upper case.
pascal_case(x) == IF x # <<>> /\ x[1] = "m" THEN <<"M">> \o Tail(x) ELSE x
\* safe_snake_case of lower-case words joined by dots: joined by "_".
safe_snake_case(x) == [i \in 1..Len(x) |-> IF x[i] = "." THEN "_" ELSE x[i]]

\* pythonize_class_name(name)
pythonize_class_name(name) ==
    Join([i \in 1..Len(Split(name, ".")) |-> pascal_case(Split(name, ".")[i])], <<".">>)

\* TypeManager.__init__: self.package = tuple(package.split("."))
type_manager_package(package) == Split(package, ".")

\* An import statement: "import <module> as <as>" (from = None) or
\* "from <from> import <module> [as <as>]".  None and no "as" are <<"-">>.
Absent == <<"-">>
Import(from, module, as) == [from |-> from, module |-> module, as |-> as]
\* The name the statement binds.
Bound(import) == IF import.as = Absent THEN import.module ELSE import.as

\* What a reference_* method returns and adds to self._imports.
Reference(result, added) == [result |-> result, added |-> added]

reference_absolute(py_package, py_type) ==
    Reference(safe_snake_case(Join(py_package, <<".">>)) \o <<".">> \o py_type,
              {Import(Absent, Join(py_package, <<".">>),
                      safe_snake_case(Join(py_package, <<".">>)))})

reference_sibling(py_type) == Reference(py_type, {})

\* importing_descendent = py_package[len(self.package):]
reference_descendent_of(importing_descendent, py_type) ==
    IF Len(importing_descendent) > 1
    THEN Reference(Join(importing_descendent, <<"_">>) \o <<".">> \o py_type,
                   {Import(<<".">> \o Join(SubSeq(importing_descendent, 1,
                                                   Len(importing_descendent) - 1), <<".">>),
                           importing_descendent[Len(importing_descendent)],
                           Join(importing_descendent, <<"_">>))})
    ELSE Reference(importing_descendent[1] \o <<".">> \o py_type,
                   {Import(<<".">>, importing_descendent[1], Absent)})

reference_descendent(self_package, py_package, py_type) ==
    reference_descendent_of(SubSeq(py_package, Len(self_package) + 1, Len(py_package)),
                            py_type)

reference_ancestor_of(distance_up, py_package, py_type) ==
    IF py_package # <<>>
    THEN Reference(<<"\"">> \o <<"_">> \o Repeat("_", distance_up)
                       \o py_package[Len(py_package)] \o <<".">> \o py_type \o <<"\"">>,
                   {Import(<<".", ".">> \o Repeat(".", distance_up),
                           py_package[Len(py_package)],
                           <<"_">> \o Repeat("_", distance_up) \o py_package[Len(py_package)])})
    ELSE Reference(Repeat("_", distance_up) \o py_type,
                   {Import(<<".">> \o Repeat(".", distance_up), py_type,
                           Repeat("_", distance_up) \o py_type)})

reference_ancestor(self_package, py_package, py_type) ==
    reference_ancestor_of(Len(self_package) - Len(py_package), py_package, py_type)

\* os.path.commonprefix of the two tuples: its length.
commonprefix(a, b) ==
    CHOOSE n \in 0..Min(Len(a), Len(b)) :
        /\ \A i \in 1..n : a[i] = b[i]
        /\ n < Min(Len(a), Len(b)) => a[n + 1] # b[n + 1]

reference_cousin_of(distance_up, rest, py_type) ==
    Reference(Repeat("_", distance_up) \o safe_snake_case(Join(rest, <<".">>))
                  \o <<".">> \o py_type,
              {Import(<<".">> \o Repeat(".", distance_up)
                          \o Join(SubSeq(rest, 1, Len(rest) - 1), <<".">>),
                      rest[Len(rest)],
                      Repeat("_", distance_up) \o safe_snake_case(Join(rest, <<".">>)))})

reference_cousin(self_package, py_package, py_type) ==
    reference_cousin_of(Len(self_package) - commonprefix(self_package, py_package),
                        SubSeq(py_package, commonprefix(self_package, py_package) + 1,
                               Len(py_package)),
                        py_type)

\* The branches of get_type_reference after the rewrite of google.protobuf.
reference(self_package, py_package, py_type) ==
    IF SubSeq(py_package, 1, Min(1, Len(py_package))) = << <<"cbiproto">> >>
    THEN reference_absolute(py_package, py_type)
    ELSE IF py_package = self_package THEN reference_sibling(py_type)
    ELSE IF SubSeq(py_package, 1, Min(Len(self_package), Len(py_package))) = self_package
    THEN reference_descendent(self_package, py_package, py_type)
    ELSE IF SubSeq(self_package, 1, Min(Len(py_package), Len(self_package))) = py_package
    THEN reference_ancestor(self_package, py_package, py_type)
    ELSE reference_cousin(self_package, py_package, py_type)

GOOGLE_PROTOBUF == << <<"google">>, <<"protobuf">> >>

\* py_package after the rewrite of google.protobuf.
py_package_of(self_package, source_package) ==
    IF (IF source_package # <<>> THEN Split(source_package, ".") ELSE <<>>) = GOOGLE_PROTOBUF
       /\ self_package # GOOGLE_PROTOBUF
    THEN << <<"cbiproto">>, <<"lib">> >> \o GOOGLE_PROTOBUF
    ELSE IF source_package # <<>> THEN Split(source_package, ".") ELSE <<>>

get_type_reference_parsed(self_package, parsed) ==
    reference(self_package, py_package_of(self_package, parsed.package),
              pythonize_class_name(parsed.name))

\* get_type_reference(source_type) of a type that is no wrapper, Duration or
\* Timestamp: what it returns and what it adds to self._imports.
get_type_reference(self_package, source_type) ==
    get_type_reference_parsed(self_package, parse_source_type_name(source_type))

\* The packages of the model: up to MaxDepth segments, and google.protobuf.
Segments == {<<"a">>, <<"b">>, <<"a", "_", "b">>}
RECURSIVE PackagesOfDepth(_)
PackagesOfDepth(n) ==
    IF n = 0 THEN {<<>>}
    ELSE {Append(p, x) : p \in PackagesOfDepth(n - 1), x \in Segments}
PackagesUpTo(n) == UNION {PackagesOfDepth(k) : k \in 0..n}
\* The package string of a tuple of segments.
PackageString(p) == Join(p, <<".">>)
\* The name protoc gives a type of a package: ".<package>.<name>".
TypeName(package, name) ==
    <<".">> \o (IF package = <<>> THEN <<>> ELSE PackageString(package) \o <<".">>) \o name
TypeNames == {<<"M">>, <<"m">>}

TypeInit ==
    /\ \E p \in PackagesUpTo(MaxDepth - 1) \cup {GOOGLE_PROTOBUF} :
          /\ tpackage = PackageString(p)
          /\ tself = type_manager_package(PackageString(p))
    /\ imports = {}
    /\ from_imports = {}
    /\ refs = <<>>
    /\ TypeRest

\* self.get_type_reference(source_type) for a type of package q.
GetTypeReference ==
    /\ Len(refs) < MaxRefs
    /\ \E q \in PackagesUpTo(MaxDepth) \cup {GOOGLE_PROTOBUF} : \E name \in TypeNames :
          LET r == get_type_reference(tself, TypeName(q, name))
          IN  /\ imports' = imports \cup r.added
              /\ refs' = Append(refs, [package |-> PackageString(q), name |-> name,
                                       result |-> r.result, added |-> r.added])
    /\ UNCHANGED <<tpackage, tself, from_imports>>
    /\ TypeFrame

\* self.typing_import(typ): from_import("typing", typ).
TypingImport ==
    /\ \E typ \in {"Optional", "List"} :
          /\ <<"typing", typ>> \notin from_imports
          /\ from_imports' = from_imports \cup {<<"typing", typ>>}
    /\ UNCHANGED <<tpackage, tself, imports, refs>>
    /\ TypeFrame

TypeNext == GetTypeReference \/ TypingImport

SpecTypes == TypeInit /\ [][TypeNext]_vars

\* C15: within one TypeManager, references to types of two different packages
\* never get the same alias: no name is bound by two different imports.
C15_DistinctAliases ==
    /\ \A i, j \in imports : Bound(i) = Bound(j) => i = j
    /\ \A i, j \in 1..Len(refs) :
          (refs[i].package # refs[j].package /\ refs[i].added # {} /\ refs[j].added # {})
              => {Bound(x) : x \in refs[i].added} # {Bound(x) : x \in refs[j].added}

\* C16: when the package of the referenced type is the package of the file
\* being emitted, the empty package included, get_type_reference returns the
\* bare pythonized type name and adds nothing to the import sets.
C16_SamePackageBareName ==
    \A i \in 1..Len(refs) :
        refs[i].package = tpackage =>
            /\ refs[i].result = pythonize_class_name(refs[i].name)
            /\ refs[i].added = {}
\* ------------------------------------------- the splicing of extensions

MaxFiles == 2
MaxExtensions == 2

\* The name protoc gives a type: ".<package>.<path>", ".<path>" without a package.
FullName(package, path) ==
    <<".">> \o (IF package = <<>> THEN <<>> ELSE package \o <<".">>) \o path

\* A FieldDescriptorProto: a declared field has no extendee.
FieldDescriptor(name, extendee) == [name |-> name, extendee |-> extendee]
\* A DescriptorProto.
Descriptor(name, field, nested_type) ==
    [name |-> name, field |-> field, nested_type |-> nested_type]
\* A FileDescriptorProto.
FileDescriptor(package, message_type, extension) ==
    [package |-> package, message_type |-> message_type, extension |-> extension]

\* {field.name: field for field in fields}
by_name(fields) ==
    [n \in {fields[i].name : i \in 1..Len(fields)} |->
        fields[CHOOSE i \in 1..Len(fields) :
                  fields[i].name = n /\ \A j \in (i + 1)..Len(fields) : fields[j].name # n]]

\* ProtoMessage.add_fields: self.fields.update(...)
add_fields(self_fields, fields) == by_name(fields) @@ self_fields

RECURSIVE Times(_, _)
\* s * n
Times(s, n) == IF n = 0 THEN <<>> ELSE s \o Times(s, n - 1)

\* ProtoFile.add_extensions on a file without extensions yet.
add_extensions(extensions) ==
    [k \in {extensions[i].extendee : i \in 1..Len(extensions)} |->
        Times(extensions, Cardinality({i \in 1..Len(extensions) : extensions[i].extendee = k}))]

\* The last item of the list that has the name: what a dict by name keeps.
last_named(items, n) ==
    items[CHOOSE i \in 1..Len(items) :
              items[i].name = n /\ \A j \in (i + 1)..Len(items) : items[j].name # n]

RECURSIVE traverse_message(_, _)
\* build_file._traverse on a DescriptorProto: the ProtoMessage.
traverse_message(item, prefix) ==
    LET fqn == IF prefix = <<>> THEN item.name ELSE prefix \o <<".">> \o item.name
    IN  [name |-> item.name,
         fully_qualified_path |-> fqn,
         fields |-> add_fields(<<>>, item.field),
         messages |-> [n \in {item.nested_type[i].name : i \in 1..Len(item.nested_type)} |->
                          traverse_message(last_named(item.nested_type, n), fqn)]]

\* build_file(f): the ProtoFile.
build_file(f) ==
    [package |-> f.package,
     messages |-> [n \in {f.message_type[i].name : i \in 1..Len(f.message_type)} |->
                      traverse_message(last_named(f.message_type, n), <<>>)],
     extensions |-> add_extensions(f.extension)]

\* CompilationContext.__post_init__: self.extensions
RECURSIVE context_extensions_of(_, _)
context_extensions_of(input_files, type_name) ==
    IF input_files = <<>> THEN <<>>
    ELSE (IF type_name \in DOMAIN input_files[1].extensions
          THEN input_files[1].extensions[type_name] ELSE <<>>)
         \o context_extensions_of(Tail(input_files), type_name)
context_extension_names(input_files) ==
    UNION {DOMAIN input_files[i].extensions : i \in 1..Len(input_files)}

\* The key of a message in CompilationContext.messages_by_type.
message_type_key(file, message) ==
    <<".">> \o file.package \o <<".">> \o message.fully_qualified_path

\* CompilationContext.messages_by_type is a dict: of the top-level messages
\* that have the key, it holds the last.
messages_by_type_holds(input_files, i, n) ==
    \A j \in (i + 1)..Len(input_files) : \A m \in DOMAIN input_files[j].messages :
        message_type_key(input_files[j], input_files[j].messages[m])
            # message_type_key(input_files[i], input_files[i].messages[n])

\* Compiler.compile, the loop over context.extensions, on one top-level message.
splice_message(input_files, i, n) ==
    IF /\ message_type_key(input_files[i], input_files[i].messages[n])
              \in context_extension_names(input_files)
       /\ messages_by_type_holds(input_files, i, n)
    THEN [input_files[i].messages[n] EXCEPT
             !.fields = add_fields(@, context_extensions_of(input_files,
                            message_type_key(input_files[i], input_files[i].messages[n])))]
    ELSE input_files[i].messages[n]

\* Compiler.compile, the loop over context.extensions: self.files after it.
splice(input_files) ==
    [i \in 1..Len(input_files) |->
        [input_files[i] EXCEPT
            !.messages = [n \in DOMAIN input_files[i].messages |->
                             splice_message(input_files, i, n)]]]

\* The requests of the model: files of different packages, each with a
\* message T that may hold a message N, and up to MaxExtensions extensions.
SplicePackages == {<<>>, <<"p">>}
Extendees ==
    {FullName(p, t) : p \in SplicePackages, t \in {<<"T">>, <<"T", ".", "N">>}}
        \cup {<<".", "q", ".", "Z">>}
ExtensionLists(names) ==
    UNION {[1..k -> Extendees] : k \in 0..Min(MaxExtensions, Len(names))}
FileDescriptors(names) ==
    {FileDescriptor(p,
         <<Descriptor(<<"T">>, <<FieldDescriptor("f", <<>>)>>,
                      IF nested
                      THEN <<Descriptor(<<"N">>, <<FieldDescriptor("g", <<>>)>>, <<>>)>>
                      ELSE <<>>)>>,
         [i \in 1..Len(e) |-> FieldDescriptor(names[i], e[i])]) :
        p \in SplicePackages, nested \in BOOLEAN, e \in ExtensionLists(names)}
ExtensionNames == << <<"x", "y", "z">>, <<"u", "v", "w">>, <<"r", "s", "t">> >>

SpliceInit ==
    /\ sources = <<>>
    /\ cfiles = <<>>
    /\ cspliced = FALSE
    /\ SpliceRest

\* Compiler.add_source_files(f)
AddSourceFile ==
    /\ ~cspliced
    /\ Len(sources) < MaxFiles
    /\ \E f \in FileDescriptors(ExtensionNames[Len(sources) + 1]) :
          /\ \A i \in 1..Len(sources) : sources[i].package # f.package
          /\ sources' = Append(sources, f)
          /\ cfiles' = Append(cfiles, build_file(f))
    /\ UNCHANGED cspliced
    /\ SpliceFrame

\* Compiler.compile, up to the end of the loop over context.extensions.
CompileSplice ==
    /\ ~cspliced
    /\ sources # <<>>
    /\ cfiles' = splice(cfiles)
    /\ cspliced' = TRUE
    /\ UNCHANGED sources
    /\ SpliceFrame

SpliceNext == AddSourceFile \/ CompileSplice

SpecSplice == SpliceInit /\ [][SpliceNext]_vars

\* The names of the extensions of the request whose extendee is the type.
ExtensionsOf(type_name) ==
    UNION {{sources[i].extension[k].name :
               k \in {k \in 1..Len(sources[i].extension) :
                         sources[i].extension[k].extendee = type_name}} :
           i \in 1..Len(sources)}
\* The names of the fields a descriptor declares.
Declared(descriptor) == {descriptor.field[k].name : k \in 1..Len(descriptor.field)}

\* C17: after the splicing step, the fields of every message of the request,
\* top-level or nested, with or without a package, are its declared fields
\* plus exactly the extensions whose extendee it is.
C17_SpliceExact ==
    cspliced =>
        \A i \in 1..Len(sources) : \A t \in 1..Len(sources[i].message_type) :
            LET d == sources[i].message_type[t]
                m == cfiles[i].messages[d.name]
            IN  /\ DOMAIN m.fields =
                       Declared(d) \cup ExtensionsOf(FullName(sources[i].package, d.name))
                /\ \A n \in 1..Len(d.nested_type) :
                       DOMAIN m.messages[d.nested_type[n].name].fields =
                           Declared(d.nested_type[n])
                               \cup ExtensionsOf(FullName(sources[i].package,
                                        d.name \o <<".">> \o d.nested_type[n].name))
\* ------------------------------------------------ one-of membership

MaxRecords == 3

\* monkey_patch_oneof_index(): the class FieldDescriptorProto afterwards.
monkey_patch_oneof_index_Skipped(cls) == cls
monkey_patch_oneof_index(cls) ==
    IF cls = "FieldDescriptorProto" THEN "FieldDescriptorProto/patched" ELSE cls

\* ProtoField.is_one_of_field, is_oneof(proto_field_obj)
is_one_of_field(model) == which_one_of(model, "oneof_index")[1] = "oneof_index"

\* The records protoc writes for a field: its name, its number, its
\* oneof_index (0 or 1) if it is a member of a one-of, and json_name
\* (number 10), which the class of the model does not declare.
FieldRecords ==
    {Rec(1, WIRE_LEN_DELIM, <<97>>), Rec(3, WIRE_VARINT, <<1>>), Rec(9, WIRE_VARINT, <<0>>),
     Rec(9, WIRE_VARINT, <<1>>), Rec(10, WIRE_LEN_DELIM, <<97>>)}

OneofInit ==
    /\ fdata = <<>>
    /\ fmodel = NewMessage("Inner")
    /\ fdecoded = FALSE
    /\ OneofRest

\* protoc serialises one more field of the descriptor.
ProtocWrite ==
    /\ ~fdecoded
    /\ Len(fdata) < MaxRecords
    /\ \E r \in FieldRecords : fdata' = Append(fdata, r)
    /\ UNCHANGED <<fmodel, fdecoded>>
    /\ OneofFrame

\* main(): monkey_patch_oneof_index(), then parse_raw(data).
Main ==
    /\ ~fdecoded
    /\ fmodel' = deserialize_from_bytes(
                     NewMessage(monkey_patch_oneof_index("FieldDescriptorProto")),
                     Concat(fdata)).m
    /\ fdecoded' = TRUE
    /\ UNCHANGED fdata
    /\ OneofFrame

OneofNext == ProtocWrite \/ Main

SpecOneof == OneofInit /\ [][OneofNext]_vars

\* C18: a decoded field is treated as a one-of member if and only if its
\* bytes held a record for oneof_index (number 9), the index 0 included.
C18_OneofIffRecorded ==
    fdecoded => (is_one_of_field(fmodel) <=> \E i \in 1..Len(fdata) : fdata[i].number = 9)

\* A field whose recorded oneof_index is 0 has been decoded as a member.
C18_Witness ==
    /\ fdecoded
    /\ \E i \in 1..Len(fdata) : fdata[i] = Rec(9, WIRE_VARINT, <<0>>)
    /\ \A i \in 1..Len(fdata) : fdata[i] # Rec(9, WIRE_VARINT, <<1>>)
    /\ is_one_of_field(fmodel)
\* ------------------------------------------------------------ the Server

MaxCalls == 6

\* What a call on the Server leaves in self._server and raises.
Called(self_server, raised) == [server |-> self_server, raised |-> raised]

\* The grpc server: made by grpc.server(), serving after its start(),
\* stopped after its stop().
GrpcStates == {"created", "serving", "stopped"}

\* Server.start(host, port).  self._server is assigned before the handlers
\* are registered and the port is bound; failed says that one of these steps
\* raised (a TLS file that cannot be read, a port that cannot be bound).
start_Again(self_server, failed) ==
    IF failed THEN Called("created", "OSError") ELSE Called("serving", "")
start(self_server, failed) ==
    IF self_server # "None" THEN Called(self_server, "RuntimeError: Server is already started")
    ELSE IF failed THEN Called("created", "OSError")
    ELSE Called("serving", "")

\* Server.close(grace_period): self._server.stop(grace_period).
close(self_server) ==
    IF self_server = "None" THEN Called(self_server, "RuntimeError: Server is not started")
    ELSE Called("stopped", "")

\* Server.wait_closed(), up to the call of wait_for_termination.
wait_closed(self_server) ==
    IF self_server = "None" THEN Called(self_server, "RuntimeError: Server is not started")
    ELSE Called(self_server, "")

Call(call, arg, before, raised) ==
    [call |-> call, arg |-> arg, before |-> before, raised |-> raised]

ServerInit ==
    /\ server = "None"
    /\ waiting = FALSE
    /\ scall = Call("__init__", "", "None", "")
    /\ scalls = 0
    /\ ServerRest

Start ==
    /\ scalls < MaxCalls
    /\ \E failed \in BOOLEAN : \E port \in {"None", "50051"} :
          /\ server' = start(server, failed).server
          /\ scall' = Call("start", port, server, start(server, failed).raised)
    /\ scalls' = scalls + 1
    /\ UNCHANGED waiting
    /\ ServerFrame

Close ==
    /\ scalls < MaxCalls
    /\ \E grace_period \in {"None", "0", "1"} :
          /\ server' = close(server).server
          /\ scall' = Call("close", grace_period, server, close(server).raised)
    /\ scalls' = scalls + 1
    /\ UNCHANGED waiting
    /\ ServerFrame

\* A thread calls wait_closed: it raises, or enters wait_for_termination.
WaitClosed ==
    /\ scalls < MaxCalls
    /\ ~waiting
    /\ server' = wait_closed(server).server
    /\ scall' = Call("wait_closed", "", server, wait_closed(server).raised)
    /\ waiting' = (wait_closed(server).raised = "")
    /\ scalls' = scalls + 1
    /\ ServerFrame

\* wait_for_termination returns once the grpc server has stopped.
WaitReturn ==
    /\ waiting
    /\ server = "stopped"
    /\ waiting' = FALSE
    /\ scall' = Call("wait_closed returns", "", server, "")
    /\ UNCHANGED <<server, scalls>>
    /\ ServerFrame

ServerNext == Start \/ Close \/ WaitClosed \/ WaitReturn

SpecServer == ServerInit /\ [][ServerNext]_vars

\* C19: start is accepted only when the Server is not started, and otherwise
\* raises "Server is already started"; close and wait_closed before start
\* raise "Server is not started" and change nothing; close on a started
\* Server succeeds every time and leaves it as a single close does.
C19_Lifecycle ==
    [][/\ scall'.call = "start" =>
              /\ server # "None" <=> scall'.raised = "RuntimeError: Server is already started"
              /\ server # "None" => server' = server
              /\ server = "None" => server' # "None"
       /\ scall'.call \in {"close", "wait_closed"} =>
              /\ server = "None" <=> scall'.raised = "RuntimeError: Server is not started"
              /\ server = "None" => server' = server
       /\ scall'.call = "close" /\ server # "None" =>
              /\ scall'.raised = ""
              /\ server' = close(close(server).server).server
              /\ scall.call = "close" /\ scall.raised = "" => server' = server]_vars

\* A close of a Server already closed has succeeded and left it as it was.
C19_Witness ==
    /\ scall.call = "close"
    /\ scall.before = "stopped"
    /\ scall.raised = ""
    /\ server = "stopped"
\* ------------------------------------------------- the order of emission

MaxTypes == 2

\* An EnumDescriptorProto or ServiceDescriptorProto: its name.
Named(name) == [name |-> name]
\* A DescriptorProto with its nested enums and messages; map_entry is
\* options.map_entry.
MessageDescriptor(name, enum_type, nested_type, map_entry) ==
    [name |-> name, enum_type |-> enum_type, nested_type |-> nested_type,
     map_entry |-> map_entry]

\* The values of the dict {item.name: item for item in items}, in its order.
dict_values(items) ==
    LET first == SelectSeq([i \in 1..Len(items) |-> i],
                           LAMBDA i : \A j \in 1..(i - 1) : items[j].name # items[i].name)
    IN  [k \in 1..Len(first) |-> last_named(items, items[first[k]].name)]

\* A class statement of the emitted code: what it defines, the path of the
\* descriptor it is made from, and its indentation.
Class(kind, path, indent) == [kind |-> kind, path |-> path, indent |-> indent]

\* "." .join(filter(None, [prefix, name]))
fqn_of(prefix, name) == IF prefix = <<>> THEN name ELSE prefix \o <<".">> \o name

\* ProtoEnum.compile
enum_compile(e, prefix, indent) == <<Class("enum", fqn_of(prefix, e.name), indent)>>

RECURSIVE message_compile(_, _, _)
RECURSIVE messages_compile(_, _, _)
\* ProtoMessage.compile: the class, then in its block the nested enums and the
\* nested messages that are no map entries.
message_compile(m, prefix, indent) ==
    <<Class("message", fqn_of(prefix, m.name), indent)>>
        \o (IF m.enum_type = <<>> THEN <<>>
            ELSE enum_compile(dict_values(m.enum_type)[1], fqn_of(prefix, m.name), indent + 1))
        \o messages_compile(SelectSeq(dict_values(m.nested_type), LAMBDA n : ~n.map_entry),
                            fqn_of(prefix, m.name), indent + 1)
\* for m in messages: formatter.writelines(m.compile(context))
messages_compile(ms, prefix, indent) ==
    IF ms = <<>> THEN <<>>
    ELSE message_compile(Head(ms), prefix, indent) \o messages_compile(Tail(ms), prefix, indent)

RECURSIVE each_compile(_, _)
\* for x in xs: formatter.writelines(<the class of kind for x>)
each_compile(xs, kind) ==
    IF xs = <<>> THEN <<>>
    ELSE <<Class(kind, Head(xs).name, 0)>> \o each_compile(Tail(xs), kind)

\* ProtoFile.compile on the ProtoFile build_file makes of f.
file_compile_ServersFirst(f) ==
    each_compile(dict_values(f.service), "server")
        \o each_compile(dict_values(f.enum_type), "enum")
        \o messages_compile(dict_values(f.message_type), <<>>, 0)
        \o each_compile(dict_values(f.service), "client")
file_compile(f) ==
    each_compile(dict_values(f.enum_type), "enum")
        \o messages_compile(dict_values(f.message_type), <<>>, 0)
        \o each_compile(dict_values(f.service), "client")
        \o each_compile(dict_values(f.service), "server")

\* The messages protoc may describe under a name: plain, or holding an enum,
\* a message, a map entry, or an enum and a message.
MessageDescriptors(name) ==
    {MessageDescriptor(name, e, n, FALSE) :
        e \in {<<>>, <<Named(<<"K">>)>>},
        n \in {<<>>,
               <<MessageDescriptor(<<"N">>, <<>>, <<>>, FALSE)>>,
               <<MessageDescriptor(<<"N">>, <<>>, <<>>, TRUE)>>,
               <<MessageDescriptor(<<"N">>, <<>>,
                                   <<MessageDescriptor(<<"O">>, <<>>, <<>>, FALSE)>>, FALSE)>>}}

EmitInit ==
    /\ pfile = [enum_type |-> <<>>, message_type |-> <<>>, service |-> <<>>]
    /\ emitted = <<>>
    /\ pcompiled = FALSE
    /\ EmitRest

NamesOf(items) == {items[i].name : i \in 1..Len(items)}

\* protoc describes one more enum of the file.
ProtocEnum ==
    /\ ~pcompiled
    /\ Len(pfile.enum_type) < MaxTypes
    /\ \E name \in {<<"E">>, <<"F">>} \ NamesOf(pfile.enum_type) :
          pfile' = [pfile EXCEPT !.enum_type = Append(@, Named(name))]
    /\ UNCHANGED <<emitted, pcompiled>>
    /\ EmitFrame

\* protoc describes one more message of the file.
ProtocMessage ==
    /\ ~pcompiled
    /\ Len(pfile.message_type) < MaxTypes
    /\ \E name \in {<<"T">>, <<"U">>, <<"V">>} \ NamesOf(pfile.message_type) :
          \E m \in MessageDescriptors(name) :
              pfile' = [pfile EXCEPT !.message_type = Append(@, m)]
    /\ UNCHANGED <<emitted, pcompiled>>
    /\ EmitFrame

\* protoc describes one more service of the file.
ProtocService ==
    /\ ~pcompiled
    /\ Len(pfile.service) < MaxTypes
    /\ \E name \in {<<"R">>, <<"S">>} \ NamesOf(pfile.service) :
          pfile' = [pfile EXCEPT !.service = Append(@, Named(name))]
    /\ UNCHANGED <<emitted, pcompiled>>
    /\ EmitFrame

\* Compiler.compile on the file: file.compile(context), for a file that has
\* a message, an enum or a service.
CompileFile ==
    /\ ~pcompiled
    /\ pfile.message_type # <<>> \/ pfile.enum_type # <<>> \/ pfile.service # <<>>
    /\ emitted' = file_compile(pfile)
    /\ pcompiled' = TRUE
    /\ UNCHANGED pfile
    /\ EmitFrame

EmitNext == ProtocEnum \/ ProtocMessage \/ ProtocService \/ CompileFile

SpecEmit == EmitInit /\ [][EmitNext]_vars

\* The place of a class statement in the order of the file.
Rank(class) ==
    IF class.kind = "enum" /\ class.indent = 0 THEN 1
    ELSE IF class.kind \in {"enum", "message"} THEN 2
    ELSE IF class.kind = "client" THEN 3
    ELSE 4
\* a is a message that holds b.
Outer(a, b) ==
    /\ a.kind = "message"
    /\ Len(a.path) < Len(b.path)
    /\ SubSeq(b.path, 1, Len(a.path) + 1) = a.path \o <<".">>
    /\ b.kind \in {"enum", "message"}
\* The paths of the classes of a kind in the emitted code.
Emitted(kind) == {emitted[i].path : i \in {j \in 1..Len(emitted) : emitted[j].kind = kind}}

\* C20: in the emitted code the top-level enums come first, then the
\* messages, each outer message before what is nested in it, then the client
\* stubs, then the server bases, and every enum, message and service of the
\* file is there.
C20_EmissionOrder ==
    pcompiled =>
        /\ \A i, j \in 1..Len(emitted) :
              /\ i < j => Rank(emitted[i]) <= Rank(emitted[j])
              /\ Outer(emitted[i], emitted[j]) => i < j
        /\ NamesOf(pfile.enum_type) \subseteq Emitted("enum")
        /\ NamesOf(pfile.message_type) \subseteq Emitted("message")
        /\ NamesOf(pfile.service) = Emitted("client")
        /\ NamesOf(pfile.service) = Emitted("server")

\* A file with an enum, a message that holds a message, and a service has
\* been compiled.
C20_Witness ==
    /\ pcompiled
    /\ pfile.enum_type # <<>>
    /\ pfile.service # <<>>
    /\ \E i, j \in 1..Len(emitted) : Outer(emitted[i], emitted[j]) /\ emitted[j].kind = "message"
    /\ \E i \in 1..Len(emitted) : emitted[i].kind = "server"
\* ------------------------------------- further properties of a message

\* C21: _serialized_on_wire is false after a construction that leaves every
\* field unset (None for an optional field) and true after one that sets a
\* field; an assignment and a decode make it true, and once true it stays true.
C21_SerializedOnWire ==
    /\ [](op.kind = "init" =>
              (msg.sow <=> \E n \in FieldNames(msg.cls) : Given(msg.cls, msg.f, n)))
    /\ [][/\ msg.sow => msg'.sow
          /\ op'.kind \in {"set", "decode", "parse"} => msg'.sow]_vars

\* An instance constructed with every field unset has been assigned to.
C21_Witness ==
    /\ op.kind = "set"
    /\ steps = 1
    /\ msg.sow
    /\ \A n \in FieldNames(msg.cls) \ {op.field} : ~Given(msg.cls, msg.f, n)

\* C22: bytes(msg) holds, for every repeated field of strings or messages, as
\* many records with the field's number as the list has elements, and decoding
\* them gives a list of as many elements in the same field.
C22_OneRecordPerElement ==
    \A name \in FieldNames(msg.cls) :
        (/\ MetaOf(msg.cls, name).repeated
         /\ MetaOf(msg.cls, name).proto_type \in {TYPE_STRING, TYPE_BYTES, TYPE_MESSAGE}
         /\ getattribute(msg, name).k = "val") =>
            /\ Len(EmittedWith(MetaOf(msg.cls, name).number)) = Len(getattribute(msg, name).v)
            /\ Len(getattribute(deserialize_from_bytes(NewMessage(msg.cls),
                                    serialize_to_bytes(msg)).m, name).v)
                   = Len(getattribute(msg, name).v)

\* C23: a read of a field returns the zero value of an unset field and caches
\* it, and neither a read nor bytes(msg) changes _serialized_on_wire,
\* _group_current, _unknown_fields or what bytes(msg) returns, and a read
\* changes no other field.
C23_ReadsChangeNothing ==
    [][op'.kind \in {"get", "bytes"} =>
          /\ msg'.sow = msg.sow /\ msg'.gc = msg.gc /\ msg'.unk = msg.unk
          /\ serialize_to_bytes(msg') = serialize_to_bytes(msg)
          /\ op'.kind = "get" =>
                 \A n \in FieldNames(msg.cls) :
                     msg'.f[n] = IF n = op'.field /\ msg.f[n] = Unset
                                 THEN get_field_default(msg.cls, n) ELSE msg.f[n]]_vars

\* An unset field that is not the current one of its group has been read,
\* and its default is cached on an instance that holds unknown fields.
C23_Witness ==
    /\ op.kind = "get"
    /\ op.field = "a"
    /\ msg.cls = "OneOf"
    /\ msg.f["a"] = Val(<<>>)
    /\ msg.gc["g"] = "b"
    /\ msg.unk # <<>>

RECURSIVE deepcopy(_)
\* deepcopy(value) of what a field holds: messages are copied by their
\* __deepcopy__, the rest is copied as it is.
deepcopy_value(meta, value) ==
    IF value.k # "val" \/ meta.proto_type # TYPE_MESSAGE \/ meta.wraps # "" THEN value
    ELSE IF meta.repeated THEN Val([i \in 1..Len(value.v) |-> deepcopy(value.v[i])])
    ELSE Val(deepcopy(value.v))

\* Message.__deepcopy__: the class called with a copy of every attribute that
\* is not UNSET.
deepcopy(m) ==
    post_init(m.cls,
              [n \in DOMAIN m.f |->
                  IF m.f[n] = Unset THEN proto_field_default(MetaOf(m.cls, n))
                  ELSE deepcopy_value(MetaOf(m.cls, n), m.f[n])])

\* C26: a deep copy of msg encodes to the bytes msg encodes to and has the
\* same current field in every one-of group.
C26_DeepcopyKeepsWire ==
    /\ serialize_to_bytes(deepcopy(msg)) = serialize_to_bytes(msg)
    /\ \A g \in GroupsOf(msg.cls) :
           which_one_of(deepcopy(msg), g)[1] = which_one_of(msg, g)[1]

\* --------------------------------------------------- the dict projections

MaxProjections == 2

\* A Python dict, as the list of its items.
PyDict(items) == [dict |-> items]
\* isinstance(v, Message), hasattr(v, "to_pydict"): v is what a field or a map
\* of messages holds.
IsMessage(v) == "cls" \in DOMAIN v

\* The condition under which the loop of serialize_to_pydict and of
\* serialize_to_dict puts the field in output; value is what getattr returned.
projected(message, meta, value, include_defaults) ==
    IF meta.proto_type = TYPE_MESSAGE
    THEN IF meta.wraps # "" THEN value.k # "none" \/ include_defaults
         ELSE IF meta.repeated THEN value.v # <<>> \/ include_defaults
         ELSE \/ value.v.sow
              \/ include_defaults
              \/ include_default_value_for_oneof(message, meta)
    ELSE IF meta.proto_type = TYPE_MAP THEN value.v # <<>> \/ include_defaults
    ELSE \/ ~ValueEq(meta, value, get_field_default(message.cls, meta.name))
         \/ include_defaults
         \/ include_default_value_for_oneof(message, meta)

RECURSIVE projection(_, _)
\* output[cased_name] for the field.
projection_value(meta, value, include_defaults) ==
    IF meta.proto_type = TYPE_MESSAGE /\ meta.wraps = "" /\ value.k = "val"
    THEN IF meta.repeated
         THEN Val([i \in 1..Len(value.v) |->
                      PyDict(projection(value.v[i], include_defaults))])
         ELSE Val(PyDict(projection(value.v, include_defaults)))
    ELSE IF meta.proto_type = TYPE_MAP /\ meta.map_types[2] = TYPE_MESSAGE
    THEN Val([i \in 1..Len(value.v) |->
                 [key |-> value.v[i].key,
                  value |-> IF IsMessage(value.v[i].value)
                            THEN PyDict(projection(value.v[i].value, include_defaults))
                            ELSE value.v[i].value]])
    ELSE value

RECURSIVE projection_fields(_, _, _)
projection_fields(message, include_defaults, i) ==
    IF i > NumFields(message.cls) THEN <<>>
    ELSE LET meta == meta_by_field_name(message.cls)[i]
         IN  (IF projected(message, meta, getattribute(message, meta.name), include_defaults)
              THEN << [key |-> meta.name,
                       value |-> projection_value(meta, getattribute(message, meta.name),
                                                  include_defaults)] >>
              ELSE <<>>)
                 \o projection_fields(message, include_defaults, i + 1)

\* The dict both projections return for a message of the model's classes.
\* Their fields are int32, string, message and map fields, which the two
\* functions put in output in the same way, and their names are single
\* lower-case words, which the casing function returns as they are.
projection(message, include_defaults) == projection_fields(message, include_defaults, 1)
serialize_to_pydict(message, include_defaults) == projection(message, include_defaults)
serialize_to_dict(message, include_defaults) == projection(message, include_defaults)

RECURSIVE after_projection(_, _, _)
\* What a map of messages holds after the projection: serialize_to_pydict
\* assigns value[k] = value[k].to_pydict(...), serialize_to_dict fills a copy.
after_projection_map(items, include_defaults, call) ==
    [i \in 1..Len(items) |->
        [key |-> items[i].key,
         value |-> IF ~IsMessage(items[i].value) THEN items[i].value
                   ELSE IF call = "to_pydict"
                   THEN PyDict(projection(items[i].value, include_defaults))
                   ELSE after_projection(items[i].value, include_defaults, call)]]

\* The attribute after the loop's body for the field: the value getattr
\* cached, the nested messages after their own projection.
after_projection_value(meta, value, include_defaults, call, included) ==
    IF meta.proto_type = TYPE_MESSAGE /\ meta.wraps = "" /\ value.k = "val"
    THEN IF meta.repeated
         THEN Val([i \in 1..Len(value.v) |->
                      after_projection(value.v[i], include_defaults, call)])
         ELSE IF included THEN Val(after_projection(value.v, include_defaults, call))
         ELSE value
    ELSE IF meta.proto_type = TYPE_MAP /\ meta.map_types[2] = TYPE_MESSAGE
    THEN Val(after_projection_map(value.v, include_defaults, call))
    ELSE value

RECURSIVE after_projection_fields(_, _, _, _)
after_projection_fields(message, include_defaults, call, i) ==
    IF i > NumFields(message.cls) THEN message
    ELSE LET meta == meta_by_field_name(message.cls)[i]
         IN  after_projection_fields(
                 [message EXCEPT !.f[meta.name] =
                     after_projection_value(
                         meta, getattribute(message, meta.name), include_defaults, call,
                         projected(message, meta, getattribute(message, meta.name),
                                   include_defaults))],
                 include_defaults, call, i + 1)

\* The message serialize_to_pydict (call "to_pydict") or serialize_to_dict
\* (call "to_dict") leaves behind.
after_projection(message, include_defaults, call) ==
    after_projection_fields(message, include_defaults, call, 1)

DictClasses == {"MapMsg", "RepMsg", "OneOf", "Maps"}

DictInit ==
    /\ \E cls \in DictClasses : \E f \in InitFields(cls, NumFields(cls)) :
          dmsg = post_init(cls, f)
    /\ dcall = [call |-> "__init__", include_defaults |-> FALSE]
    /\ dout = <<>>
    /\ dcalls = 0
    /\ DictRest

\* dmsg.to_pydict(include_defaults=...)
ToPydict ==
    /\ dcalls < MaxProjections
    /\ \E include_defaults \in BOOLEAN :
          /\ dout' = serialize_to_pydict(dmsg, include_defaults)
          /\ dmsg' = after_projection(dmsg, include_defaults, "to_pydict")
          /\ dcall' = [call |-> "to_pydict", include_defaults |-> include_defaults]
    /\ dcalls' = dcalls + 1
    /\ DictFrame

\* dmsg.to_dict(include_defaults=...)
ToDict ==
    /\ dcalls < MaxProjections
    /\ \E include_defaults \in BOOLEAN :
          /\ dout' = serialize_to_dict(dmsg, include_defaults)
          /\ dmsg' = after_projection(dmsg, include_defaults, "to_dict")
          /\ dcall' = [call |-> "to_dict", include_defaults |-> include_defaults]
    /\ dcalls' = dcalls + 1
    /\ DictFrame

DictNext == ToPydict \/ ToDict
SpecDict == DictInit /\ [][DictNext]_vars

\* Every map of messages of the message holds Message instances.
HoldsMessages(m) ==
    \A name \in FieldNames(m.cls) :
        (/\ MetaOf(m.cls, name).proto_type = TYPE_MAP
         /\ MetaOf(m.cls, name).map_types[2] = TYPE_MESSAGE
         /\ m.f[name].k = "val") =>
            \A i \in 1..Len(m.f[name].v) : IsMessage(m.f[name].v[i].value)

\* C27: a to_pydict or to_dict call on a message whose maps hold messages
\* leaves them holding messages, and the message encodes to the same bytes
\* after the call as before it.
C27_ProjectionsReadOnly ==
    [][(dcalls' = dcalls + 1 /\ HoldsMessages(dmsg)) =>
          /\ HoldsMessages(dmsg')
          /\ serialize_to_bytes(dmsg') = serialize_to_bytes(dmsg)]_vars

\* ------------------------------------------------------ the signal handler

MaxSignals == 3
MaxClosables == 2

SIGINT == 2
SIGTERM == 15
\* graceful_exit's default signals.
Signals == {SIGINT, SIGTERM}

\* No call of _handle_signal is inside the loop.
NoFrame == [sig |-> 0, i |-> 0, fail |-> FALSE]

\* A call of _handle_signal: the signal, how it ended ("running" until it
\* does), the code of the SystemExit it ended with, and the call whose raise
\* statement made the exception (0 if it returned).
HandlerCall(sig, outcome, code, by) ==
    [sig |-> sig, outcome |-> outcome, code |-> code, by |-> by]

\* fail after closable.close() inside try ... except RuntimeError: fail = True
\* A handler that swallows the RuntimeError without noting it.
fail_after_close_Ignored(fail, raised) == fail
fail_after_close(fail, raised) == fail \/ raised = "RuntimeError"

\* A SystemExit raised by the call number by passes through every call that
\* is still running: none of them catches it.
unwind(calls, code, by) ==
    [k \in 1..Len(calls) |->
        IF calls[k].outcome = "running"
        THEN HandlerCall(calls[k].sig, "SystemExit", code, by) ELSE calls[k]]

SignalInit ==
    /\ closables \in UNION {[1..n -> {"ok", "RuntimeError"}] : n \in 0..MaxClosables}
    /\ hfirst = TRUE
    /\ hframe = NoFrame
    /\ hclosed = <<>>
    /\ hcalls = <<>>
    /\ SignalRest

\* A signal arrives and Python calls _handle_signal(sig, frame), between two
\* bytecodes of whatever runs, a running _handle_signal included.  The first
\* call enters the loop, every other one goes to the raise statement.
HandleSignal ==
    /\ Len(hcalls) < MaxSignals
    /\ \E sig \in Signals :
          IF hfirst
          THEN /\ hfirst' = FALSE
               /\ hframe' = [sig |-> sig, i |-> 1, fail |-> FALSE]
               /\ hcalls' = Append(hcalls, HandlerCall(sig, "running", 0, 0))
          ELSE /\ hfirst' = hfirst
               /\ hframe' = NoFrame
               /\ hcalls' = Append(unwind(hcalls, 128 + sig, Len(hcalls) + 1),
                                   HandlerCall(sig, "SystemExit", 128 + sig, Len(hcalls) + 1))
    /\ UNCHANGED <<closables, hclosed>>
    /\ SignalFrame

\* One turn of the loop: closable.close(), and the except clause.
CloseClosable ==
    /\ hframe # NoFrame
    /\ hframe.i <= Len(closables)
    /\ hclosed' = Append(hclosed, hframe.i)
    /\ hframe' = [hframe EXCEPT !.i = hframe.i + 1,
                                !.fail = fail_after_close(hframe.fail, closables[hframe.i])]
    /\ UNCHANGED <<closables, hfirst, hcalls>>
    /\ SignalFrame

\* After the loop: return if not fail, raise SystemExit(128 + sig) otherwise.
HandlerReturn ==
    /\ hframe # NoFrame
    /\ hframe.i > Len(closables)
    /\ hcalls' = IF hframe.fail THEN unwind(hcalls, 128 + hframe.sig, 1)
                 ELSE [hcalls EXCEPT ![1] = HandlerCall(hframe.sig, "return", 0, 0)]
    /\ hframe' = NoFrame
    /\ UNCHANGED <<closables, hfirst, hclosed>>
    /\ SignalFrame

SignalNext == HandleSignal \/ CloseClosable \/ HandlerReturn
SpecSignal == SignalInit /\ [][SignalNext]_vars

\* close() was called at most once on each closable.
ClosedAtMostOnce ==
    \A i, j \in 1..Len(hclosed) : i # j => hclosed[i] # hclosed[j]
\* Every closable was closed, in order.
ClosedAllInOrder == hclosed = [i \in 1..Len(closables) |-> i]
\* Some closable's close() raises RuntimeError.
SomeRaises == \E i \in 1..Len(closables) : closables[i] = "RuntimeError"
\* The first call has ended.
FirstEnded == hcalls # <<>> /\ hcalls[1].outcome # "running"
\* Every call after the first raised SystemExit(128 + its signal).
LaterCallsExit ==
    \A k \in 2..Len(hcalls) :
        hcalls[k].outcome = "SystemExit" /\ hcalls[k].code = 128 + hcalls[k].sig
\* The first call ran its loop to the end and returned, or raised
\* SystemExit(128 + sig) because a closable raised.
FirstClosedAll ==
    /\ ClosedAllInOrder
    /\ hcalls[1].outcome = "return" <=> ~SomeRaises
    /\ hcalls[1].outcome = "SystemExit" => hcalls[1].code = 128 + hcalls[1].sig

MaxTasks == 2

\* The timeouts and the metadata given to a stub or to a call.  A Mapping and
\* a collection of pairs are kept apart, both as the list of their items.
Timeouts == {None, Val(1)}
Metadatas ==
    {None,
     Val([kind |-> "dict", items |-> <<>>]),
     Val([kind |-> "list", items |-> << <<"k", "b">> >>])}
\* The values the stub's constructor got.
StubTimeouts == {None, Val(5)}
StubMetadatas == {None, Val([kind |-> "dict", items |-> << <<"k", "a">> >>])}

\* _Base._resolve_request_kwargs(timeout, metadata) of the blocking stubs:
\* the metadata goes through tuple(metadata.items()) or tuple(metadata or ()).
resolve_request_kwargs(self, timeout, metadata) ==
    LET chosen == IF metadata = None THEN self.metadata ELSE metadata
    IN  [timeout |-> IF timeout = None THEN self.timeout ELSE timeout,
         metadata |-> IF chosen = None THEN Val([kind |-> "tuple", items |-> <<>>])
                      ELSE Val([kind |-> "tuple", items |-> chosen.v.items])]

\* ServiceStub.__resolve_request_kwargs of the asyncio stubs (the deadline is
\* resolved as the timeout is).
resolve_request_kwargs_async(self, timeout, metadata) ==
    [timeout |-> IF timeout = None THEN self.timeout ELSE timeout,
     metadata |-> IF metadata = None THEN self.metadata ELSE metadata]

\* A resolver that keeps what it resolved on the stub.
after_resolve_request_kwargs_Kept(self, kwargs) ==
    [self EXCEPT !.timeout = kwargs.timeout]
\* The stub after either resolver: neither assigns to an attribute of self.
after_resolve_request_kwargs(self, kwargs) == self

Tasks == 1..MaxTasks
NoCall == [pc |-> "idle", helper |-> "", timeout |-> None, metadata |-> None,
           kwargs |-> [timeout |-> None, metadata |-> None]]

ClientInit ==
    /\ \E timeout \in StubTimeouts, metadata \in StubMetadatas :
          stub = [timeout |-> timeout, metadata |-> metadata]
    /\ rcalls = [t \in Tasks |-> NoCall]
    /\ requests = <<>>
    /\ ClientRest

\* A task calls an RPC helper of the stub with its timeout and metadata.
CallHelper(t) ==
    /\ rcalls[t].pc = "idle"
    /\ \E helper \in {"_unary_unary", "async _unary_unary"} :
       \E timeout \in Timeouts, metadata \in Metadatas :
          rcalls' = [rcalls EXCEPT ![t] = [NoCall EXCEPT !.pc = "called", !.helper = helper,
                                                         !.timeout = timeout,
                                                         !.metadata = metadata]]
    /\ UNCHANGED <<stub, requests>>
    /\ ClientFrame

\* The helper resolves the request kwargs.
ResolveKwargs(t) ==
    /\ rcalls[t].pc = "called"
    /\ LET kwargs == IF rcalls[t].helper = "_unary_unary"
                     THEN resolve_request_kwargs(stub, rcalls[t].timeout, rcalls[t].metadata)
                     ELSE resolve_request_kwargs_async(stub, rcalls[t].timeout,
                                                       rcalls[t].metadata)
       IN  /\ rcalls' = [rcalls EXCEPT ![t].pc = "resolved", ![t].kwargs = kwargs]
           /\ stub' = after_resolve_request_kwargs(stub, kwargs)
    /\ UNCHANGED requests
    /\ ClientFrame

\* The helper hands the kwargs to the channel: multicallable(request, ...),
\* self._channel.request(...).
SendRequest(t) ==
    /\ rcalls[t].pc = "resolved"
    /\ requests' = Append(requests, [task |-> t, kwargs |-> rcalls[t].kwargs])
    /\ rcalls' = [rcalls EXCEPT ![t].pc = "sent"]
    /\ UNCHANGED stub
    /\ ClientFrame

ClientNext == \E t \in Tasks : CallHelper(t) \/ ResolveKwargs(t) \/ SendRequest(t)
SpecClient == ClientInit /\ [][ClientNext]_vars

\* The items of a metadata value; None has none.
ItemsOf(metadata) == IF metadata = None THEN <<>> ELSE metadata.v.items

\* The kwargs carry the call's own timeout and metadata where they were
\* given, and the stub's where they were None.
UsesOwn(call, kwargs) ==
    /\ kwargs.timeout = IF call.timeout # None THEN call.timeout ELSE stub.timeout
    /\ ItemsOf(kwargs.metadata) =
           IF call.metadata # None THEN ItemsOf(call.metadata) ELSE ItemsOf(stub.metadata)

\* C25: no step of a call changes the stub, and whatever the interleaving of
\* the tasks, the kwargs a call has resolved, and those the channel got from
\* it, are its own timeout and metadata where given and the stub's otherwise.
C25_StubStateless ==
    /\ [](/\ \A t \in Tasks :
                rcalls[t].pc \in {"resolved", "sent"} => UsesOwn(rcalls[t], rcalls[t].kwargs)
          /\ \A i \in 1..Len(requests) :
                UsesOwn(rcalls[requests[i].task], requests[i].kwargs))
    /\ [][stub' = stub]_vars
\* Two calls are in flight with different timeouts, one given and one left
\* to the stub's default, and both have reached the channel.
C25_Witness ==
    /\ Len(requests) = 2
    /\ rcalls[1].timeout = None /\ rcalls[2].timeout = Val(1)
    /\ stub.timeout = Val(5)
    /\ rcalls[1].metadata # None /\ rcalls[2].metadata = None /\ stub.metadata # None

\* ------------------------------------------------ decoding repeated fields

\* The elements one record carries for the repeated field meta: the varints
\* of a packed payload, or the one value of the record.
WireElements(meta, parsed) ==
    IF parsed.wire_type = WIRE_LEN_DELIM /\ meta.proto_type \in PACKED_TYPES
    THEN decode_packed(meta, parsed.value, 0).value
    ELSE << postprocess_single(parsed.wire_type, meta, parsed.value, parsed.none).value.v >>

RECURSIVE AllWireElements(_, _)
\* The elements the records of fields carry for the field, in wire order.
AllWireElements(meta, fields) ==
    IF fields = <<>> THEN <<>>
    ELSE (IF Head(fields).number = meta.number THEN WireElements(meta, Head(fields))
          ELSE <<>>)
             \o AllWireElements(meta, Tail(fields))

\* Buffers in which a repeated field comes in more than one record: a packed
\* field split over two records, packed and unpacked records mixed, two
\* strings, two messages.
SplitSamples(cls) ==
    CASE cls = "Rep" ->
           {<<Rec(2, 2, <<1>>), Rec(2, 2, <<150, 1>>)>>,
            <<Rec(2, 2, <<1>>), Rec(2, 0, <<0>>)>>,
            <<Rec(2, 0, <<0>>), Rec(2, 2, <<1>>)>>,
            <<Rec(2, 0, <<0>>), Rec(2, 0, <<1>>)>>,
            <<Rec(3, 2, <<107>>), Rec(3, 2, <<>>)>>}
      [] cls = "RepMsg" ->
           {<<Rec(2, 2, <<8, 1>>), Rec(2, 2, <<>>)>>}
      [] OTHER -> {}

\* C28: decoding a buffer into msg leaves in every repeated field the
\* elements it held followed by the elements the buffer carries for it, in
\* wire order.
C28_DecodeAppends ==
    \A recs \in WireSamples(msg.cls) \cup SplitSamples(msg.cls) :
        deserialize_from_bytes(msg, Concat(recs)).err = "" =>
            \A name \in FieldNames(msg.cls) :
                (MetaOf(msg.cls, name).repeated /\ getattribute(msg, name).k = "val") =>
                    getattribute(deserialize_from_bytes(msg, Concat(recs)).m, name).v
                        = getattribute(msg, name).v
                              \o AllWireElements(MetaOf(msg.cls, name),
                                                 parse_fields(Concat(recs)).fields)

\* ------------------------------------------------- the range of an integer

\* -2^(bits-1) <= n < 2^(bits-1)
InSignedRange(n, bits) == Len(n.mag) <= bits - 1 \/ n = PyInt(TRUE, Pow2(bits - 1))
\* 0 <= n < 2^bits
InUnsignedRange(n, bits) == (~n.neg \/ n.mag = <<>>) /\ Len(n.mag) <= bits
\* n is in the range of the declared type.
InTypeRange(proto_type, n) ==
    IF proto_type \in {TYPE_INT32, TYPE_SINT32} THEN InSignedRange(n, 32)
    ELSE IF proto_type \in {TYPE_INT64, TYPE_SINT64} THEN InSignedRange(n, INT64_BITS)
    ELSE IF proto_type = TYPE_UINT32 THEN InUnsignedRange(n, 32)
    ELSE InUnsignedRange(n, INT64_BITS)

\* C29: whatever varint the wire carried, the integer _postprocess_single
\* makes of what decode_varint returned lies in the range of the declared
\* type, for int32, sint32, uint32, int64, sint64 and uint64.
C29_StoredIntegerInRange ==
    vres.ok =>
        \A proto_type \in {TYPE_INT32, TYPE_SINT32, TYPE_UINT32,
                           TYPE_INT64, TYPE_SINT64, TYPE_UINT64} :
            InTypeRange(proto_type, postprocess_int(proto_type, vres.value))

\* ------------------------------------------------- the stream-stream call

MaxMessages == 3
MaxResponses == 3

\* sending_task.cancel(): a task that has finished is left as it is.
cancel(task) == IF task = "running" THEN "cancelled" ELSE task

\* The generator is over: it returned, raised, or was closed by its consumer.
Terminated == gpc \in {"returned", "raised", "closed"}

StreamInit ==
    /\ gpc = "created"
    /\ sending_task = "none"
    /\ remaining \in 0..MaxMessages
    /\ wire = <<>>
    /\ yielded = 0
    /\ StreamRest

\* await stream.send_request(), then ensure_future(self._send_messages(...));
\* the generator goes on to wait for the first response.
SendRequestAndSpawn ==
    /\ gpc = "created"
    /\ wire' = Append(wire, "send_request")
    /\ sending_task' = "running"
    /\ gpc' = "iterating"
    /\ UNCHANGED <<remaining, yielded>>
    /\ StreamFrame

\* _send_messages: one turn of its loop, await stream.send_message(message).
\* The task runs whenever the generator waits, is suspended, or is over.
SendMessage ==
    /\ sending_task = "running"
    /\ remaining > 0
    /\ wire' = Append(wire, "send_message")
    /\ remaining' = remaining - 1
    /\ UNCHANGED <<gpc, sending_task, yielded>>
    /\ StreamFrame

\* _send_messages: await stream.end() after the loop.
EndStream ==
    /\ sending_task = "running"
    /\ remaining = 0
    /\ wire' = Append(wire, "end")
    /\ sending_task' = "done"
    /\ UNCHANGED <<gpc, remaining, yielded>>
    /\ StreamFrame

\* async for response in stream: yield response
YieldResponse ==
    /\ gpc = "iterating"
    /\ yielded < MaxResponses
    /\ gpc' = "yielded"
    /\ yielded' = yielded + 1
    /\ UNCHANGED <<sending_task, remaining, wire>>
    /\ StreamFrame

\* The consumer asks for the next response.
NextResponse ==
    /\ gpc = "yielded"
    /\ gpc' = "iterating"
    /\ UNCHANGED <<sending_task, remaining, wire, yielded>>
    /\ StreamFrame

\* The response stream ends: the loop is left without an exception, and the
\* generator returns.
ResponsesEnd ==
    /\ gpc = "iterating"
    /\ gpc' = "returned"
    /\ UNCHANGED <<sending_task, remaining, wire, yielded>>
    /\ StreamFrame

\* The iteration raises: except BaseException: sending_task.cancel(); raise
IterationRaises ==
    /\ gpc = "iterating"
    /\ sending_task' = cancel(sending_task)
    /\ gpc' = "raised"
    /\ UNCHANGED <<remaining, wire, yielded>>
    /\ StreamFrame

\* The consumer closes the generator: GeneratorExit is thrown at the yield
\* and takes the same except clause.
ConsumerCloses ==
    /\ gpc = "yielded"
    /\ sending_task' = cancel(sending_task)
    /\ gpc' = "closed"
    /\ UNCHANGED <<remaining, wire, yielded>>
    /\ StreamFrame

StreamNext ==
    \/ SendRequestAndSpawn \/ SendMessage \/ EndStream \/ YieldResponse
    \/ NextResponse \/ ResponsesEnd \/ IterationRaises \/ ConsumerCloses
SpecStream == StreamInit /\ [][StreamNext]_vars

\* C30: once the generator is over, the sending task has completed, having
\* ended the stream after the last message, or has been cancelled; and
\* nothing is sent on the stream before send_request.
C30_SendingTaskSettled ==
    /\ Terminated =>
          \/ sending_task = "cancelled"
          \/ /\ sending_task = "done"
             /\ remaining = 0
             /\ wire[Len(wire)] = "end"
    /\ wire # <<>> => wire[1] = "send_request"

====
